---- MODULE Spec2Model ----
(***************************************************************************)
(* Model of the ordinabot core: the rate-limited RPC client (rpcCall),     *)
(* the TokenTrackerApp dispatcher, the HeliusWebSocketManager transport    *)
(* and the forward / backward fund tracers.                                *)
(*                                                                         *)
(* Each subsystem has its own specification (SpecRate, SpecApp, SpecWS,    *)
(* SpecTrace); the variables of the other subsystems stay at their idle    *)
(* values under it.                                                        *)
(***************************************************************************)
EXTENDS Integers, Sequences, FiniteSets, TLC

(***************************************************************************)
(* Bounds of the model                                                     *)
(***************************************************************************)
\* granularity of the modelled clock (ms per step of Date.now())
TickMs == 1000
\* the clock stops advancing at this value
MaxTime == 5000
\* invocations of a burst whose requests may fail
BurstFaulty == 1
\* number of concurrent callers of rpcCall
NumCallers == 2
\* number of feed messages delivered to the TokenTrackerApp
MaxEvents == 3
\* largest configured maxConcurrentTransactions
MaxConcurrent == 2
\* number of WebSocket objects one HeliusWebSocketManager creates
MaxSockets == 4
\* largest finite maxRetries configured
MaxRetriesCfg == 2
\* a configured maxBackoff small enough that the cap of the backoff is met
SmallMaxBackoff == 3000
\* largest configured maxDepth of a trace
MaxDepthCfg == 3
\* number of RPC answers of one trace that are a failure or a null transaction
MaxFaults == 2
\* number of runs of one strategy that are in progress at a time
MaxRuns == 2
\* number of polls of watchForTokenCreation that are followed
MaxPolls == 3
\* latest block time of a traced transfer, and number of nodes of a result
MaxBlockTime == 11
MaxChains == 2

(***************************************************************************)
(* Program constants                                                       *)
(***************************************************************************)
windowMs == 2000
maxRequests == 4
DefaultRetries == 3
RetryBackoffMs == 1000
DefaultInitialBackoff == 1000
DefaultMaxBackoff == 30000

VARIABLES
  \* ---- rpcCall / RATE_LIMIT ----
  now,          \* Date.now()
  queue,        \* RATE_LIMIT.queue
  lastReset,    \* RATE_LIMIT.lastReset
  callers,      \* one record per rpcCall invocation chain (last: the answer to its
                \* latest attempt, history)
  admitted,     \* history: admission times that are younger than windowMs
  \* ---- TokenTrackerApp ----
  appConfig,           \* the constructor's config
  activeTransactions,  \* TokenTrackerApp.activeTransactions
  currentMint,         \* TokenTrackerApp.currentMint
  events,              \* per delivered feed message: where its handler stands
  delivered,           \* number of feed messages delivered so far
  executions,          \* history: executeTrade calls per mint
  \* ---- HeliusWebSocketManager ----
  wsConfig,          \* maxRetries, and whether the owner listens to 'error'
  ws,                \* this.ws: the current socket, 0 for null
  sockets,           \* the WebSocket objects created so far
  retryCount,        \* this.retryCount
  timers,            \* the pending setTimeout callbacks of handleReconnect
  reconnectTimeout,  \* this.reconnectTimeout: the last timer handle, 0 for null
  timerCount,        \* number of timer handles handed out
  crashed,           \* an 'error' was emitted with no listener: uncaught exception
  closed,            \* history: close() was called and connect() not since
  reconnectedWhileClosed, \* history: a reconnect timer fired while closed
  overlapped,        \* history: connect() ran over a live socket or a pending timer
  everOpened,        \* history: some socket reached Open
  attempts,          \* history: reconnect timers fired since the last Open
  delays,            \* history: the delays scheduled since the last Open
  maxRetriesReached, \* history: 'maxRetriesReached' was emitted
  liquidityPools,    \* config.liquidityPools of the owner: pool id -> enabled
  subscribed,        \* history: per socket and pool, the logsSubscribe messages sent
  lastSend,          \* history: the last send(data) of the owner and its outcome
  \* ---- getTransfers / getIncomingTransfers ----
  traceConfig,  \* direction, root or target address, amount range, maxDepth
  ledger,       \* the transactions the RPC node knows
  tracePc,      \* "start", "running", "done"
  visited,      \* the visited set of the run
  stack,        \* the active calls of getTransfers, the innermost last
  result,       \* what the top-level call returned
  faults,       \* number of failed or null RPC answers so far
  expanded,     \* history: per address, how often its transactions were fetched
  created,      \* history: the nodes created, in creation order
  createdAtFault, \* history: number of nodes created when an rpcCall first failed, -1 if none
  \* ---- buyToken (utils/handlers/sniperooHandler) ----
  buy,          \* one call of buyToken: its arguments, where it stands, its result
  \* ---- TelegramBotManager ----
  bot,          \* activeStrategies, the strategy runs in progress, the last command
  \* ---- findLastWallet (tracker) ----
  walk,         \* one call of findLastWallet: current, visited, what it returned
  \* ---- watchForTokenCreation (tracker) ----
  watch,        \* the polling loop: seenSignatures, the poll in progress, the buys
  \* ---- backtraceFundsStrategy.run: calculateStats ----
  exportRun     \* one export: the chains traced, the clock, the stats computed

rateVars == <<now, queue, lastReset, callers, admitted>>
appVars == <<appConfig, activeTransactions, currentMint, events, delivered, executions>>

feedVars == <<liquidityPools, subscribed, lastSend>>

wsVars == <<wsConfig, ws, sockets, retryCount, timers, reconnectTimeout, timerCount,
            crashed, closed, reconnectedWhileClosed, overlapped, everOpened, attempts,
            delays, maxRetriesReached, feedVars>>

traceVars == <<traceConfig, ledger, tracePc, visited, stack, result, faults, expanded,
               created, createdAtFault>>

buyVars == <<buy>>
botVars == <<bot>>
walkVars == <<walk>>
watchVars == <<watch>>
exportVars == <<exportRun>>

RateOnly == UNCHANGED <<appVars, wsVars, traceVars, buyVars, botVars, walkVars, watchVars,
                          exportVars>>
AppOnly == UNCHANGED <<rateVars, wsVars, traceVars, buyVars, botVars, walkVars, watchVars,
                         exportVars>>
WsOnly == UNCHANGED <<rateVars, appVars, traceVars, buyVars, botVars, walkVars, watchVars,
                        exportVars>>
TraceOnly == UNCHANGED <<rateVars, appVars, wsVars, buyVars, botVars, walkVars, watchVars,
                           exportVars>>
BuyOnly == UNCHANGED <<rateVars, appVars, wsVars, traceVars, botVars, walkVars, watchVars,
                         exportVars>>
BotOnly == UNCHANGED <<rateVars, appVars, wsVars, traceVars, buyVars, walkVars, watchVars,
                         exportVars>>
WalkOnly == UNCHANGED <<rateVars, appVars, wsVars, traceVars, buyVars, botVars, watchVars,
                        exportVars>>
WatchOnly == UNCHANGED <<rateVars, appVars, wsVars, traceVars, buyVars, botVars, walkVars,
                         exportVars>>
ExportOnly == UNCHANGED <<rateVars, appVars, wsVars, traceVars, buyVars, botVars, walkVars,
                          watchVars>>

vars == <<now, queue, lastReset, callers, admitted,
          appConfig, activeTransactions, currentMint, events, delivered, executions,
          wsConfig, ws, sockets, retryCount, timers, reconnectTimeout, timerCount,
          crashed, closed, reconnectedWhileClosed, overlapped, everOpened, attempts,
          delays, maxRetriesReached, liquidityPools, subscribed, lastSend,
          traceConfig, ledger, tracePc, visited, stack, result, faults, expanded,
          created, createdAtFault, buy, bot, walk, watch, exportRun>>

(***************************************************************************)
(* rpcCall and RATE_LIMIT                                                  *)
(***************************************************************************)
Callers == 1..NumCallers

Outcomes == {"ok", "rateLimited", "rpcError", "networkError"}

\* now - RATE_LIMIT.lastReset > RATE_LIMIT.windowMs
WindowExpired(t, lr) == t - lr > windowMs

\* RATE_LIMIT.queue.filter(time => now - time < RATE_LIMIT.windowMs)
Prune(q, t) == SelectSeq(q, LAMBDA time : t - time < windowMs)

QueueFull_OffByOne(q) == Len(q) > maxRequests

\* RATE_LIMIT.queue.length >= RATE_LIMIT.maxRequests
QueueFull(q) == Len(q) >= maxRequests

\* RATE_LIMIT.windowMs - (now - RATE_LIMIT.queue[0])
WaitTime(t, q) == windowMs - (t - q[1])

\* the queue after the reset and the filter at the head of rpcCall
QueueAtEntry == Prune(IF WindowExpired(now, lastReset) THEN <<>> ELSE queue, now)

Enter_WaitTakesBudget(c, retries, sent) ==
  /\ lastReset' = IF WindowExpired(now, lastReset) THEN now ELSE lastReset
  /\ IF QueueFull(QueueAtEntry)
       THEN /\ queue' = QueueAtEntry
            /\ callers' = [callers EXCEPT ![c] =
                 [pc |-> "sleep", retries |-> retries - 1, sent |-> sent,
                  wake |-> now + WaitTime(now, QueueAtEntry), why |-> "full",
                  last |-> "none"]]
            /\ admitted' = admitted
       ELSE /\ queue' = Append(QueueAtEntry, now)
            /\ callers' = [callers EXCEPT ![c] =
                 [pc |-> "inflight", retries |-> retries, sent |-> sent + 1,
                  wake |-> 0, why |-> "none", last |-> "none"]]
            /\ admitted' = Append(admitted, now)
  /\ now' = now

\* The synchronous head of rpcCall(url, method, params, retries): reset,
\* prune, then either sleep for waitTime or push now and send the request.
Enter(c, retries, sent) ==
  /\ lastReset' = IF WindowExpired(now, lastReset) THEN now ELSE lastReset
  /\ IF QueueFull(QueueAtEntry)
       THEN /\ queue' = QueueAtEntry
            /\ callers' = [callers EXCEPT ![c] =
                 [pc |-> "sleep", retries |-> retries, sent |-> sent,
                  wake |-> now + WaitTime(now, QueueAtEntry), why |-> "full",
                  last |-> "none"]]
            /\ admitted' = admitted
       ELSE /\ queue' = Append(QueueAtEntry, now)
            /\ callers' = [callers EXCEPT ![c] =
                 [pc |-> "inflight", retries |-> retries, sent |-> sent + 1,
                  wake |-> 0, why |-> "none", last |-> "none"]]
            /\ admitted' = Append(admitted, now)
  /\ now' = now

\* a caller invokes rpcCall with the default retry budget
RpcCall(c) ==
  /\ callers[c].pc = "idle"
  /\ Enter(c, DefaultRetries, 0)
  /\ RateOnly

\* a sleep(...) ends and the recursive rpcCall runs
Resume(c) ==
  /\ callers[c].pc = "sleep"
  /\ now >= callers[c].wake
  /\ Enter(c, callers[c].retries, callers[c].sent)
  /\ RateOnly

AfterResponse_ShortRateLimitWait(outcome, retries) ==
  CASE outcome = "ok" -> [do |-> "return", ms |-> 0]
    [] outcome \in {"rateLimited", "rpcError", "networkError"} /\ retries > 0 ->
         [do |-> "retry", ms |-> RetryBackoffMs]
    [] OTHER -> [do |-> "throw", ms |-> 0]

AfterResponse_RateLimitUnbudgeted(outcome, retries) ==
  CASE outcome = "ok" -> [do |-> "return", ms |-> 0]
    [] outcome = "rateLimited" -> [do |-> "retry", ms |-> windowMs]
    [] outcome \in {"rpcError", "networkError"} /\ retries > 0 ->
         [do |-> "retry", ms |-> RetryBackoffMs]
    [] OTHER -> [do |-> "throw", ms |-> 0]

AfterResponse_SwallowsError(outcome, retries) ==
  CASE outcome = "ok" -> [do |-> "return", ms |-> 0]
    [] outcome = "rateLimited" /\ retries > 0 -> [do |-> "retry", ms |-> windowMs]
    [] outcome \in {"rateLimited", "rpcError", "networkError"} /\ retries > 0 ->
         [do |-> "retry", ms |-> RetryBackoffMs]
    [] OTHER -> [do |-> "return", ms |-> 0]

\* what rpcCall does with the upstream answer: "return", "throw", or a sleep
\* of the given length followed by rpcCall(..., retries - 1)
AfterResponse(outcome, retries) ==
  CASE outcome = "ok" -> [do |-> "return", ms |-> 0]
    [] outcome = "rateLimited" /\ retries > 0 -> [do |-> "retry", ms |-> windowMs]
    [] outcome \in {"rateLimited", "rpcError", "networkError"} /\ retries > 0 ->
         [do |-> "retry", ms |-> RetryBackoffMs]
    [] OTHER -> [do |-> "throw", ms |-> 0]

\* the upstream answers the request of caller c
Respond(c, outcome) ==
  /\ callers[c].pc = "inflight"
  /\ LET r == AfterResponse(outcome, callers[c].retries) IN
       callers' = [callers EXCEPT ![c] =
         CASE r.do = "return" -> [@ EXCEPT !.pc = "done", !.last = outcome]
           [] r.do = "throw" -> [@ EXCEPT !.pc = "failed", !.last = outcome]
           [] OTHER -> [@ EXCEPT !.pc = "sleep", !.retries = @ - 1,
                                 !.wake = now + r.ms, !.last = outcome,
                                 !.why = IF outcome = "rateLimited" THEN "rateLimited" ELSE "error"]]
  /\ UNCHANGED <<now, queue, lastReset, admitted>>
  /\ RateOnly

\* the caller takes the result (or the error) and may call again
Return(c) ==
  /\ callers[c].pc \in {"done", "failed"}
  /\ callers' = [callers EXCEPT ![c] =
       [pc |-> "idle", retries |-> DefaultRetries, sent |-> 0, wake |-> 0, why |-> "none",
        last |-> "none"]]
  /\ UNCHANGED <<now, queue, lastReset, admitted>>
  /\ RateOnly

\* time passes
Tick ==
  /\ now + TickMs <= MaxTime
  /\ now' = now + TickMs
  /\ admitted' = SelectSeq(admitted, LAMBDA time : (now + TickMs) - time < windowMs)
  /\ UNCHANGED <<queue, lastReset, callers>>
  /\ RateOnly

RateIdle ==
  /\ now = 0
  /\ queue = <<>>
  /\ lastReset = 0
  /\ callers = [c \in Callers |->
       [pc |-> "idle", retries |-> DefaultRetries, sent |-> 0, wake |-> 0, why |-> "none",
        last |-> "none"]]
  /\ admitted = <<>>

(***************************************************************************)
(* TokenTrackerApp: handleWebSocketMessage, processTransaction             *)
(***************************************************************************)
EventIds == 1..MaxEvents

NoMint == "null"
Mints == {"MintA", "MintBpump"}
Signatures == {"sig1", "sig2", "sig3"}

\* what a feed message is, as handleWebSocketMessage tells them apart
MessageKinds == {"unparsable", "confirmation", "rpcError", "noLogs", "noMatch", "match"}

\* the signature handleWebSocketMessage reads from a message: only a message
\* that passes the filter hands one to processTransaction
SignaturesOf(kind) == IF kind = "match" THEN Signatures ELSE {""}

\* the mint a transaction creates. The body of extractMintAddress in the
\* source is a placeholder that returns null ("Implementation would go
\* here"); the detail fetch the specification describes is modelled in its
\* place as a fixed map from signature to mint (sig3 keeps the null).
extractMintAddress(signature) ==
  CASE signature = "sig1" -> "MintA"
    [] signature = "sig2" -> "MintBpump"
    [] OTHER -> NoMint

\* mintAddress.trim().toLowerCase().endsWith('pump')
EndsWithPump(mint) == mint \in {"MintBpump"}

\* TokenAuthorityService.getTokenAuthorities: the status for the authorities
\* found, and the fail-closed status when the lookup throws
AuthorityLookups == {"none", "mint", "freeze", "both", "lookupFailed"}

getTokenAuthorities_FailsOpen(lookup) ==
  CASE lookup = "none" -> [isSecure |-> TRUE, hasMintAuthority |-> FALSE, hasFreezeAuthority |-> FALSE]
    [] lookup = "mint" -> [isSecure |-> FALSE, hasMintAuthority |-> TRUE, hasFreezeAuthority |-> FALSE]
    [] lookup = "freeze" -> [isSecure |-> FALSE, hasMintAuthority |-> FALSE, hasFreezeAuthority |-> TRUE]
    [] lookup = "both" -> [isSecure |-> FALSE, hasMintAuthority |-> TRUE, hasFreezeAuthority |-> TRUE]
    [] OTHER -> [isSecure |-> TRUE, hasMintAuthority |-> FALSE, hasFreezeAuthority |-> FALSE]

getTokenAuthorities(lookup) ==
  CASE lookup = "none" -> [isSecure |-> TRUE, hasMintAuthority |-> FALSE, hasFreezeAuthority |-> FALSE]
    [] lookup = "mint" -> [isSecure |-> FALSE, hasMintAuthority |-> TRUE, hasFreezeAuthority |-> FALSE]
    [] lookup = "freeze" -> [isSecure |-> FALSE, hasMintAuthority |-> FALSE, hasFreezeAuthority |-> TRUE]
    [] lookup = "both" -> [isSecure |-> FALSE, hasMintAuthority |-> TRUE, hasFreezeAuthority |-> TRUE]
    [] OTHER -> [isSecure |-> FALSE, hasMintAuthority |-> TRUE, hasFreezeAuthority |-> TRUE]

performSecurityChecks_FreezeFirst(cfg, mint, lookup) ==
  LET st == getTokenAuthorities(lookup) IN
  CASE cfg.checkMode = "snipe" ->
         IF ~st.isSecure /\ ~cfg.allowFreezeAuthority /\ st.hasFreezeAuthority
           THEN "freezeAuthority"
         ELSE IF ~st.isSecure /\ ~cfg.allowMintAuthority /\ st.hasMintAuthority
           THEN "mintAuthority"
         ELSE "pass"
    [] cfg.checkMode = "full" ->
         IF EndsWithPump(mint) /\ cfg.ignoreEndsWithPump THEN "pump" ELSE "pass"
    [] OTHER -> "pass"

\* performSecurityChecks: "pass", or the check that rejected the mint
performSecurityChecks(cfg, mint, lookup) ==
  LET st == getTokenAuthorities(lookup) IN
  CASE cfg.checkMode = "snipe" ->
         IF ~st.isSecure /\ ~cfg.allowMintAuthority /\ st.hasMintAuthority
           THEN "mintAuthority"
         ELSE IF ~st.isSecure /\ ~cfg.allowFreezeAuthority /\ st.hasFreezeAuthority
           THEN "freezeAuthority"
         ELSE "pass"
    [] cfg.checkMode = "full" ->
         IF EndsWithPump(mint) /\ cfg.ignoreEndsWithPump THEN "pump" ELSE "pass"
    [] OTHER -> "pass"

\* this.activeTransactions >= this.config.maxConcurrentTransactions
GateClosed_OffByOne(active, cfg) == active > cfg.maxConcurrentTransactions

GateClosed(active, cfg) == active >= cfg.maxConcurrentTransactions

\* the configurations: every setting of the flags the check mode reads (the
\* flags it does not read keep the values of DEFAULT_CHECK_SETTINGS);
\* simulation mode, which executeTrade reads after the checks, is switched
\* with the checks off
AppConfigs ==
  {cfg \in [checkMode : {"snipe", "full", "none"},
            allowMintAuthority : BOOLEAN,
            allowFreezeAuthority : BOOLEAN,
            ignoreEndsWithPump : BOOLEAN,
            simulationMode : BOOLEAN,
            maxConcurrentTransactions : 1..MaxConcurrent] :
     /\ cfg.checkMode # "snipe" => ~cfg.allowMintAuthority /\ ~cfg.allowFreezeAuthority
     /\ cfg.checkMode # "full" => cfg.ignoreEndsWithPump
     /\ cfg.checkMode # "none" => ~cfg.simulationMode}

\* checked: performSecurityChecks was called for the event
NoEvent == [status |-> "none", signature |-> "", atCap |-> FALSE, why |-> "", checked |-> FALSE]

PassesFilter_NoPoolTest(kind) == kind \in {"match", "noMatch"}

\* the early returns of handleWebSocketMessage: a confirmation, an RPC error,
\* a message without a logs array or a signature, and one whose logs hold no
\* instruction of an enabled pool never reach processTransaction
PassesFilter(kind) == kind = "match"

Caught_Unhandled(status) == "uncaught"

\* the catch block of handleWebSocketMessage: an exception thrown anywhere in
\* the handler is logged there and the handler's promise resolves, so the event
\* ends in the status it would have had; a rejection nobody handles would end
\* it "uncaught"
Caught(status) == status

\* no promise of a handler was rejected: the process still runs its handlers
Running == \A e \in EventIds : events[e].status # "uncaught"

Release_KeepsSlotOnException(e, why) ==
  /\ activeTransactions' = IF why = "exception" THEN activeTransactions
                                                ELSE activeTransactions - 1
  /\ events' = [events EXCEPT ![e].status = IF why = "exception" THEN Caught("done")
                                                                  ELSE "done",
                              ![e].why = why]

\* the finally block of processTransaction, and the handler's end
Release(e, why) ==
  /\ activeTransactions' = activeTransactions - 1
  /\ events' = [events EXCEPT ![e].status = IF why = "exception" THEN Caught("done")
                                                                  ELSE "done",
                              ![e].why = why]

Remember_AfterTheTrade(current, mintAddress) == current

\* this.currentMint = mintAddress, which processTransaction runs before the
\* security checks and the trade
Remember(current, mintAddress) == mintAddress

SimulationOnly_Ignored(cfg) == FALSE

\* executeTrade: `if (this.config.tokenBuy.simulationMode) { ...; return; }`
\* before the call of tradingService.buyToken
SimulationOnly(cfg) == cfg.simulationMode

\* handleWebSocketMessage up to its first await: the filter, then the head of
\* processTransaction (the gate, the increment, the call of extractMintAddress)
HandleWebSocketMessage(kind, signature) ==
  /\ Running
  /\ delivered < MaxEvents
  /\ delivered' = delivered + 1
  /\ LET e == delivered + 1
         AtCap == activeTransactions = appConfig.maxConcurrentTransactions IN
       IF kind = "unparsable"
         THEN /\ events' = [events EXCEPT ![e] =
                   [NoEvent EXCEPT !.status = Caught("skipped"), !.why = "exception"]]
              /\ UNCHANGED activeTransactions
       ELSE IF ~PassesFilter(kind)
         THEN /\ events' = [events EXCEPT ![e] =
                   [NoEvent EXCEPT !.status = "skipped"]]
              /\ UNCHANGED activeTransactions
       ELSE IF GateClosed(activeTransactions, appConfig)
         THEN /\ events' = [events EXCEPT ![e] =
                   [NoEvent EXCEPT !.status = "dropped",
                                   !.atCap = AtCap, !.why = "maxConcurrent"]]
              /\ UNCHANGED activeTransactions
       ELSE /\ activeTransactions' = activeTransactions + 1
            /\ events' = [events EXCEPT ![e] =
                 [NoEvent EXCEPT !.status = "extracting", !.signature = signature,
                                 !.atCap = AtCap]]
  /\ UNCHANGED <<appConfig, currentMint, executions>>
  /\ AppOnly

\* extractMintAddress resolves (or throws): the null check, the duplicate
\* check, the update of currentMint and the call of performSecurityChecks
ExtractDone(e, throws) ==
  /\ Running
  /\ events[e].status = "extracting"
  /\ LET mintAddress == extractMintAddress(events[e].signature) IN
       IF throws
         THEN Release(e, "exception") /\ UNCHANGED currentMint
       ELSE IF mintAddress = NoMint
         THEN Release(e, "noMint") /\ UNCHANGED currentMint
       ELSE IF currentMint = mintAddress
         THEN Release(e, "duplicate") /\ UNCHANGED currentMint
       ELSE /\ currentMint' = Remember(currentMint, mintAddress)
            /\ events' = [events EXCEPT ![e].status = "checking", ![e].checked = TRUE]
            /\ UNCHANGED activeTransactions
  /\ UNCHANGED <<appConfig, delivered, executions>>
  /\ AppOnly

\* performSecurityChecks resolves: a rejection ends the dispatch; otherwise
\* executeTrade runs, which returns at once in simulation mode and calls
\* tradingService.buyToken otherwise
CheckDone(e, lookup) ==
  /\ Running
  /\ events[e].status = "checking"
  /\ appConfig.checkMode # "snipe" => lookup = "none"
  /\ LET mintAddress == extractMintAddress(events[e].signature)
         verdict == performSecurityChecks(appConfig, mintAddress, lookup) IN
       IF verdict # "pass"
         THEN Release(e, verdict) /\ UNCHANGED executions
       ELSE /\ executions' = [executions EXCEPT ![mintAddress] = @ + 1]
            /\ IF SimulationOnly(appConfig)
                 THEN Release(e, "simulated")
                 ELSE /\ events' = [events EXCEPT ![e].status = "trading"]
                      /\ UNCHANGED activeTransactions
  /\ UNCHANGED <<appConfig, currentMint, delivered>>
  /\ AppOnly

\* tradingService.buyToken resolves with success or failure, or throws
TradeDone(e, outcome) ==
  /\ Running
  /\ events[e].status = "trading"
  /\ Release(e, outcome)
  /\ UNCHANGED <<appConfig, currentMint, delivered, executions>>
  /\ AppOnly

AppIdle ==
  /\ activeTransactions = 0
  /\ currentMint = ""
  /\ events = [e \in EventIds |-> NoEvent]
  /\ delivered = 0
  /\ executions = [m \in Mints |-> 0]

InFlight == {e \in EventIds : events[e].status \in {"extracting", "checking", "trading"}}


(***************************************************************************)
(* HeliusWebSocketManager                                                  *)
(***************************************************************************)
SocketIds == 1..MaxSockets

Min(a, b) == IF a <= b THEN a ELSE b

\* maxRetries: a finite number, or Infinity (DEFAULT_WS_CONFIG)
Infinity == [finite |-> FALSE, n |-> 0]
Finite(n) == [finite |-> TRUE, n |-> n]

\* this.retryCount >= this.config.maxRetries
RetriesExhausted(count, maxRetries) == maxRetries.finite /\ count >= maxRetries.n

Backoff_Uncapped(cfg, count) == cfg.initialBackoff * 2^count

\* Math.min(initialBackoff * Math.pow(2, retryCount), maxBackoff)
Backoff(cfg, count) == Min(cfg.initialBackoff * 2^count, cfg.maxBackoff)

\* the count the timer callback of handleReconnect leaves: this.retryCount++
NextRetryCount(count) == count + 1

\* WebSocket.close() of the ws library: nothing on a closed or closing
\* socket; an open socket starts its closing handshake; a connecting socket
\* has its handshake aborted, which emits 'error' and then 'close'
SocketClose(sock) ==
  CASE sock.state = "OPEN" -> [sock EXCEPT !.state = "CLOSING"]
    [] sock.state = "CONNECTING" -> [state |-> "CLOSING", errorPending |-> TRUE]
    [] OTHER -> sock

\* the sockets after `if (this.ws) this.ws.close()`
CloseCurrent == IF ws = 0 THEN sockets ELSE [sockets EXCEPT ![ws] = SocketClose(@)]

socketCount == Cardinality({s \in SocketIds : sockets[s].state # "NONE"})

Live(s) == sockets[s].state \in {"CONNECTING", "OPEN", "CLOSING"}

\* the pools of config.liquidityPools, each enabled or not
Pools == {"pool1", "pool2"}
PoolConfigs == [Pools -> BOOLEAN]
NoPools == [p \in Pools |-> FALSE]

EnabledPools_All(pools) == Pools

\* this.config.liquidityPools.filter(pool => pool.enabled)
EnabledPools(pools) == {p \in Pools : pools[p]}

CanSend_AnySocket(w, socks) == w # 0

\* send passes its test: not (!this.ws || this.ws.readyState !== WebSocket.OPEN)
CanSend(w, socks) == w # 0 /\ socks[w].state = "OPEN"

\* this.ws.readyState, "NONE" when this.ws is null
ReadyState(w, socks) == IF w = 0 THEN "NONE" ELSE socks[w].state

Payloads == {"data"}
NoSend == [result |-> "none", transmitted |-> "", readyState |-> "NONE", timerPending |-> FALSE]

\* the owner calls send(data): it throws 'WebSocket is not connected' or
\* hands the data to this.ws.send
Send(data) ==
  /\ ~crashed
  /\ lastSend' =
       IF CanSend(ws, sockets)
         THEN [result |-> "sent", transmitted |-> data,
               readyState |-> ReadyState(ws, sockets), timerPending |-> timers # {}]
         ELSE [result |-> "notConnected", transmitted |-> "",
               readyState |-> ReadyState(ws, sockets), timerPending |-> timers # {}]
  /\ UNCHANGED <<wsConfig, ws, sockets, retryCount, timers, reconnectTimeout, timerCount,
                 crashed, closed, reconnectedWhileClosed, overlapped, everOpened, attempts,
                 delays, maxRetriesReached, liquidityPools, subscribed>>
  /\ WsOnly

\* handleWebSocketOpen, the owner's 'open' listener: one logsSubscribe message
\* per enabled pool through send; a send that throws leaves the listener and
\* the 'open' handler as an uncaught exception
HandleWebSocketOpen(socks) ==
  LET enabledPools == EnabledPools(liquidityPools) IN
    IF enabledPools = {} \/ CanSend(ws, socks)
      THEN /\ subscribed' = [subscribed EXCEPT ![ws] =
                 [p \in Pools |-> IF p \in enabledPools THEN @[p] + 1 ELSE @[p]]]
           /\ UNCHANGED crashed
      ELSE /\ crashed' = TRUE
           /\ UNCHANGED subscribed

\* connect(): close the current socket if there is one, create a new one and
\* attach the four handlers to it
ConnectBody(pendingTimers) ==
  /\ socketCount < MaxSockets
  /\ ws' = socketCount + 1
  /\ sockets' = [CloseCurrent EXCEPT ![socketCount + 1] =
                   [state |-> "CONNECTING", errorPending |-> FALSE]]
  /\ overlapped' = (overlapped \/ (ws # 0 /\ Live(ws)) \/ pendingTimers # {})

\* the owner calls connect()
Connect ==
  /\ ~crashed
  /\ ConnectBody(timers)
  /\ closed' = FALSE
  /\ UNCHANGED <<wsConfig, retryCount, timers, reconnectTimeout, timerCount, crashed,
                 reconnectedWhileClosed, everOpened, attempts, delays, maxRetriesReached>>
  /\ UNCHANGED feedVars
  /\ WsOnly

\* the owner calls close()
Close ==
  /\ ~crashed
  /\ sockets' = CloseCurrent
  /\ timers' = {t \in timers : t.id # reconnectTimeout}
  /\ closed' = TRUE
  /\ UNCHANGED <<wsConfig, ws, retryCount, reconnectTimeout, timerCount, crashed,
                 reconnectedWhileClosed, overlapped, everOpened, attempts, delays,
                 maxRetriesReached>>
  /\ UNCHANGED feedVars
  /\ WsOnly

\* the 'open' handler: the handshake of socket s succeeded; retryCount = 0,
\* then emit('open'), which runs the owner's listener
SocketOpen(s) ==
  /\ ~crashed
  /\ sockets[s].state = "CONNECTING"
  /\ sockets' = [sockets EXCEPT ![s].state = "OPEN"]
  /\ retryCount' = 0
  /\ everOpened' = TRUE
  /\ attempts' = 0
  /\ delays' = <<>>
  /\ HandleWebSocketOpen([sockets EXCEPT ![s].state = "OPEN"])
  /\ UNCHANGED <<wsConfig, ws, timers, reconnectTimeout, timerCount, closed,
                 reconnectedWhileClosed, overlapped, maxRetriesReached, liquidityPools,
                 lastSend>>
  /\ WsOnly

\* the connection of socket s fails (handshake refused, network error): the
\* socket will emit 'error' and then 'close'
SocketFail(s) ==
  /\ ~crashed
  /\ sockets[s].state \in {"CONNECTING", "OPEN"}
  /\ sockets' = [sockets EXCEPT ![s] = [state |-> "CLOSING", errorPending |-> TRUE]]
  /\ UNCHANGED <<wsConfig, ws, retryCount, timers, reconnectTimeout, timerCount, crashed,
                 closed, reconnectedWhileClosed, overlapped, everOpened, attempts, delays,
                 maxRetriesReached>>
  /\ UNCHANGED feedVars
  /\ WsOnly

\* the peer closes the open connection of socket s
SocketDrop(s) ==
  /\ ~crashed
  /\ sockets[s].state = "OPEN"
  /\ sockets' = [sockets EXCEPT ![s].state = "CLOSING"]
  /\ UNCHANGED <<wsConfig, ws, retryCount, timers, reconnectTimeout, timerCount, crashed,
                 closed, reconnectedWhileClosed, overlapped, everOpened, attempts, delays,
                 maxRetriesReached>>
  /\ UNCHANGED feedVars
  /\ WsOnly

\* the 'error' handler: this.emit('error', error), which throws when the
\* manager has no 'error' listener
SocketError(s) ==
  /\ ~crashed
  /\ sockets[s].errorPending
  /\ sockets' = [sockets EXCEPT ![s].errorPending = FALSE]
  /\ crashed' = ~wsConfig.errorListener
  /\ UNCHANGED <<wsConfig, ws, retryCount, timers, reconnectTimeout, timerCount, closed,
                 reconnectedWhileClosed, overlapped, everOpened, attempts, delays,
                 maxRetriesReached>>
  /\ UNCHANGED feedVars
  /\ WsOnly

\* the 'close' handler: this.emit('close') and handleReconnect()
SocketClosed(s) ==
  /\ ~crashed
  /\ sockets[s].state = "CLOSING"
  /\ ~sockets[s].errorPending
  /\ sockets' = [sockets EXCEPT ![s].state = "CLOSED"]
  /\ IF RetriesExhausted(retryCount, wsConfig.maxRetries)
       THEN /\ maxRetriesReached' = TRUE
            /\ UNCHANGED <<timers, reconnectTimeout, timerCount, delays>>
       ELSE /\ timers' = timers \cup {[id |-> timerCount + 1, delay |-> Backoff(wsConfig, retryCount)]}
            /\ reconnectTimeout' = timerCount + 1
            /\ timerCount' = timerCount + 1
            /\ delays' = Append(delays, [delay |-> Backoff(wsConfig, retryCount),
                                      attempts |-> attempts, afterClose |-> closed])
            /\ UNCHANGED maxRetriesReached
  /\ UNCHANGED <<wsConfig, ws, retryCount, crashed, closed, reconnectedWhileClosed,
                 overlapped, everOpened, attempts>>
  /\ UNCHANGED feedVars
  /\ WsOnly

\* the timer callback of handleReconnect: this.retryCount++; this.connect()
ReconnectTimer(t) ==
  /\ ~crashed
  /\ t \in timers
  /\ timers' = timers \ {t}
  /\ retryCount' = NextRetryCount(retryCount)
  /\ attempts' = attempts + 1
  /\ ConnectBody(timers \ {t})
  /\ reconnectedWhileClosed' = (reconnectedWhileClosed \/ closed)
  /\ UNCHANGED <<wsConfig, reconnectTimeout, timerCount, crashed, closed, everOpened,
                 delays, maxRetriesReached>>
  /\ UNCHANGED feedVars
  /\ WsOnly

\* DEFAULT_WS_CONFIG's backoff, or the same with a small maxBackoff
WsConfigs ==
  [initialBackoff : {DefaultInitialBackoff},
   maxBackoff : {DefaultMaxBackoff, SmallMaxBackoff},
   maxRetries : {Infinity} \cup {Finite(n) : n \in 0..MaxRetriesCfg},
   errorListener : BOOLEAN]

WsIdle ==
  /\ ws = 0
  /\ sockets = [s \in SocketIds |-> [state |-> "NONE", errorPending |-> FALSE]]
  /\ retryCount = 0
  /\ timers = {}
  /\ reconnectTimeout = 0
  /\ timerCount = 0
  /\ crashed = FALSE
  /\ closed = FALSE
  /\ reconnectedWhileClosed = FALSE
  /\ overlapped = FALSE
  /\ everOpened = FALSE
  /\ attempts = 0
  /\ delays = <<>>
  /\ maxRetriesReached = FALSE
  /\ subscribed = [s \in SocketIds |-> [p \in Pools |-> 0]]
  /\ lastSend = NoSend

(***************************************************************************)
(* getTransfers (forward trace) and getIncomingTransfers (backward trace)  *)
(*                                                                         *)
(* Balances and amounts are in units of 0.001 SOL (10^6 lamports), on both *)
(* sides of every comparison of the source.                                *)
(***************************************************************************)
Addresses == {"A", "B", "C"}

\* the transactions a ledger is drawn from: pre- and post-balances aligned
\* with the account keys
TxPool ==
  << [keys |-> <<"A", "B">>, pre |-> <<1000, 0>>, post |-> <<500, 500>>],
     [keys |-> <<"B", "A">>, pre |-> <<1000, 0>>, post |-> <<500, 500>>],
     [keys |-> <<"B", "C">>, pre |-> <<1000, 0>>, post |-> <<500, 500>>],
     [keys |-> <<"C", "A">>, pre |-> <<1000, 0>>, post |-> <<500, 500>>],
     [keys |-> <<"A", "B", "C">>, pre |-> <<2000, 0, 0>>, post |-> <<1000, 700, 300>>],
     [keys |-> <<"A", "B">>, pre |-> <<90000, 0>>, post |-> <<40000, 50000>>],
     [keys |-> <<"A", "A">>, pre |-> <<1000, 0>>, post |-> <<500, 500>>] >>

TxIds == 1..Len(TxPool)

RECURSIVE SortedSeq(_)
\* the elements of a set of transaction ids, in ascending order
SortedSeq(S) ==
  IF S = {} THEN <<>>
  ELSE LET m == CHOOSE x \in S : \A y \in S : x <= y IN <<m>> \o SortedSeq(S \ {m})

\* getSignaturesForAddress: the transactions of the ledger that name the address
SignaturesFor(address) ==
  SortedSeq({t \in ledger : \E k \in 1..Len(TxPool[t].keys) : TxPool[t].keys[k] = address})

\* amount >= config.minAmount && amount <= config.maxAmount
InRange(cfg, amount) == amount >= cfg.minAmount /\ amount <= cfg.maxAmount

\* what account k lost (preBalances[k] - postBalances[k]) and gained
Sent(tx, k) == tx.pre[k] - tx.post[k]
Received(tx, k) == tx.post[k] - tx.pre[k]

\* the two nested loops of the tracers: account i is the traced address with
\* an outgoing (forward) or incoming (backward) amount in range, account
\* j # i is a counterparty whose amount is in range
Qualifies(cfg, tx, address, i, j) ==
  /\ tx.keys[i] = address
  /\ i # j
  /\ IF cfg.direction = "forward"
       THEN InRange(cfg, Sent(tx, i)) /\ InRange(cfg, Received(tx, j))
       ELSE InRange(cfg, Received(tx, i)) /\ InRange(cfg, Sent(tx, j))

\* the amount that is stored in the node of counterparty j
NodeAmount(cfg, tx, j) == IF cfg.direction = "forward" THEN Received(tx, j) ELSE Sent(tx, j)

NoPair == <<0, 0>>

NextPair_FirstOnly(cfg, tx, address, i0, j0) ==
  LET n == Len(tx.keys)
      Cand == {p \in (1..n) \X (1..n) : Qualifies(cfg, tx, address, p[1], p[2])}
  IN IF Cand = {} \/ i0 # 1 \/ j0 # 1 THEN NoPair
     ELSE CHOOSE p \in Cand :
            \A q \in Cand : p[1] < q[1] \/ (p[1] = q[1] /\ p[2] <= q[2])

\* the first pair (i, j), in loop order, at or after (i0, j0) that qualifies
NextPair(cfg, tx, address, i0, j0) ==
  LET n == Len(tx.keys)
      After(p) == p[1] > i0 \/ (p[1] = i0 /\ p[2] >= j0)
      Cand == {p \in (1..n) \X (1..n) : After(p) /\ Qualifies(cfg, tx, address, p[1], p[2])}
  IN IF Cand = {} THEN NoPair
     ELSE CHOOSE p \in Cand :
            \A q \in Cand : p[1] < q[1] \/ (p[1] = q[1] /\ p[2] <= q[2])

SkipExpansion_PerBranch(cfg, depth, address, seen) ==
  depth >= cfg.maxDepth \/ address \in {stack[k].address : k \in 1..Len(stack)}

SkipExpansion_NoVisited(cfg, depth, address, seen) == depth >= cfg.maxDepth
SkipExpansion_NoDepth(cfg, depth, address, seen) == address \in seen
SkipExpansion_Never(cfg, depth, address, seen) == FALSE

\* depth >= config.maxDepth || visited.has(address)
SkipExpansion(cfg, depth, address, seen) == depth >= cfg.maxDepth \/ address \in seen

\* a call of getTransfers / getIncomingTransfers that passed the guard
NewFrame(address, depth, parent) ==
  [address |-> address, depth |-> depth, parent |-> parent, phase |-> "signatures",
   sigs |-> <<>>, si |-> 1, i |-> 1, j |-> 1, nodes |-> <<>>,
   pending |-> [address |-> "", amount |-> 0, id |-> 0]]

ForwardNode_ChildDepth(address, amount, children, depth) ==
  [address |-> address, amount |-> amount, children |-> children, depth |-> depth + 1]

\* the node of an edge. Forward: pushed once the recursion into the recipient
\* has returned, it owns the recipient's nodes. Backward: created before the
\* recursion into the sender, it refers to the node it was found from.
ForwardNode(address, amount, children, depth) ==
  [address |-> address, amount |-> amount, children |-> children, depth |-> depth]

BackwardNode_DepthOfCall(id, address, amount, parent, depth) ==
  [id |-> id, address |-> address, amount |-> amount, parent |-> parent,
   depth |-> IF parent = 0 THEN depth ELSE depth - 1]

BackwardNode(id, address, amount, parent, depth) ==
  [id |-> id, address |-> address, amount |-> amount, parent |-> parent, depth |-> depth]

\* nodes.push(...) when the recursion into an edge's counterparty returned
PushEdge(cfg, frame, edge, childNodes) ==
  IF cfg.direction = "forward"
    THEN Append(frame.nodes,
                ForwardNode(edge.address, edge.amount, childNodes, frame.depth))
    ELSE frame.nodes
           \o <<BackwardNode(edge.id, edge.address, edge.amount, frame.parent, frame.depth)>>
           \o childNodes

OnFetchFailure_DropsNodes(frame) == [frame EXCEPT !.phase = "return", !.nodes = <<>>]

\* the catch block: the error is logged, the nodes found so far are returned
OnFetchFailure(frame) == [frame EXCEPT !.phase = "return"]

AwaitChild_LoopGoesOn(frame, p, edge) ==
  [frame EXCEPT !.phase = "transaction", !.si = @ + 1, !.i = p[1], !.j = p[2],
                !.pending = edge]

\* `await getTransfers(...)` / `await getIncomingTransfers(...)`: the loops of
\* the caller stand at pair p until the call for the counterparty has returned
AwaitChild(frame, p, edge) ==
  [frame EXCEPT !.phase = "recursing", !.i = p[1], !.j = p[2], !.pending = edge]

MaxStack == MaxDepthCfg + 1

Top == stack[Len(stack)]
SetTop(frame) == [stack EXCEPT ![Len(stack)] = frame]

NoteFault ==
  /\ faults < MaxFaults
  /\ faults' = faults + 1

NoteFailure ==
  /\ NoteFault
  /\ createdAtFault' = IF createdAtFault = -1 THEN Len(created) ELSE createdAtFault

\* the strategy calls getTransfers(rpcUrl, root, visited, config) with a
\* fresh visited set
StartTrace ==
  /\ tracePc = "start"
  /\ IF SkipExpansion(traceConfig, 0, traceConfig.root, visited)
       THEN /\ tracePc' = "done"
            /\ result' = <<>>
            /\ UNCHANGED <<visited, stack, expanded>>
       ELSE /\ tracePc' = "running"
            /\ visited' = visited \cup {traceConfig.root}
            /\ stack' = <<NewFrame(traceConfig.root, 0, 0)>>
            /\ expanded' = [expanded EXCEPT ![traceConfig.root] = @ + 1]
            /\ UNCHANGED result
  /\ UNCHANGED <<traceConfig, ledger, faults, created, createdAtFault>>
  /\ TraceOnly

\* rpcCall('getSignaturesForAddress') of the innermost call returns or throws
FetchSignatures(ok) ==
  /\ tracePc = "running"
  /\ Top.phase = "signatures"
  /\ IF ok
       THEN /\ stack' = SetTop([Top EXCEPT !.phase = "transaction",
                                           !.sigs = SignaturesFor(Top.address)])
            /\ UNCHANGED <<faults, createdAtFault>>
       ELSE /\ NoteFailure
            /\ stack' = SetTop(OnFetchFailure(Top))
  /\ UNCHANGED <<traceConfig, ledger, tracePc, visited, result, expanded, created>>
  /\ TraceOnly

\* rpcCall('getTransaction') for the next signature returns the transaction,
\* returns null (`if (!tx) continue`) or throws
FetchTransaction(answer) ==
  /\ tracePc = "running"
  /\ Top.phase = "transaction"
  /\ Top.si <= Len(Top.sigs)
  /\ CASE answer = "ok" ->
            /\ stack' = SetTop([Top EXCEPT !.phase = "scan", !.i = 1, !.j = 1])
            /\ UNCHANGED <<faults, createdAtFault>>
       [] answer = "null" ->
            /\ NoteFault
            /\ stack' = SetTop([Top EXCEPT !.si = @ + 1])
            /\ UNCHANGED createdAtFault
       [] OTHER ->
            /\ NoteFailure
            /\ stack' = SetTop(OnFetchFailure(Top))
  /\ UNCHANGED <<traceConfig, ledger, tracePc, visited, result, expanded, created>>
  /\ TraceOnly

\* the loops over the account keys run to the next qualifying pair and the
\* tracer calls itself for the counterparty at depth + 1: the call returns []
\* at its guard, or marks the address visited and fetches its signatures.
\* With no qualifying pair left the loop over the signatures goes on.
Scan ==
  /\ tracePc = "running"
  /\ Top.phase = "scan"
  /\ LET tx == TxPool[Top.sigs[Top.si]]
         p == NextPair(traceConfig, tx, Top.address, Top.i, Top.j)
         edge == [address |-> tx.keys[p[2]], amount |-> NodeAmount(traceConfig, tx, p[2]),
                  id |-> Len(created) + 1]
         made == [address |-> edge.address, depth |-> Top.depth]
     IN IF p = NoPair
          THEN /\ stack' = SetTop([Top EXCEPT !.phase = "transaction", !.si = @ + 1])
               /\ UNCHANGED <<visited, expanded, created>>
        ELSE IF SkipExpansion(traceConfig, Top.depth + 1, edge.address, visited)
          THEN /\ stack' = SetTop([Top EXCEPT !.nodes = PushEdge(traceConfig, Top, edge, <<>>),
                                              !.i = p[1], !.j = p[2] + 1])
               /\ created' = Append(created, made)
               /\ UNCHANGED <<visited, expanded>>
        ELSE /\ Len(stack) < MaxStack
             /\ stack' = Append(SetTop(AwaitChild(Top, p, edge)),
                                NewFrame(edge.address, Top.depth + 1,
                                         IF traceConfig.direction = "forward" THEN 0 ELSE edge.id))
             /\ visited' = visited \cup {edge.address}
             /\ expanded' = [expanded EXCEPT ![edge.address] = @ + 1]
             /\ created' = IF traceConfig.direction = "forward" THEN created
                           ELSE Append(created, made)
  /\ UNCHANGED <<traceConfig, ledger, tracePc, result, faults, createdAtFault>>
  /\ TraceOnly

\* `return nodes`: after the last signature, or out of the catch block. The
\* caller pushes the edge's node (and, backward, the nodes returned) and goes
\* on with the next account; the top-level call hands the nodes to the strategy.
ReturnNodes ==
  /\ tracePc = "running"
  /\ Top.phase = "return" \/ (Top.phase = "transaction" /\ Top.si > Len(Top.sigs))
  /\ IF Len(stack) = 1
       THEN /\ tracePc' = "done"
            /\ result' = Top.nodes
            /\ stack' = <<>>
            /\ UNCHANGED created
       ELSE LET caller == stack[Len(stack) - 1] IN
            /\ stack' = [SubSeq(stack, 1, Len(stack) - 1) EXCEPT ![Len(stack) - 1] =
                 [caller EXCEPT !.nodes = PushEdge(traceConfig, caller, caller.pending, Top.nodes),
                                !.phase = "scan", !.j = @ + 1]]
            /\ created' = IF traceConfig.direction = "forward"
                            THEN Append(created, [address |-> caller.pending.address,
                                                  depth |-> caller.depth])
                            ELSE created
            /\ UNCHANGED <<tracePc, result>>
  /\ UNCHANGED <<traceConfig, ledger, visited, faults, expanded, createdAtFault>>
  /\ TraceOnly

TraceConfigs ==
  [direction : {"forward", "backward"},
   root : {"A"},
   minAmount : {100},
   maxAmount : {10000},
   maxDepth : 0..MaxDepthCfg]

TraceIdle ==
  /\ tracePc = "start"
  /\ visited = {}
  /\ stack = <<>>
  /\ result = <<>>
  /\ faults = 0
  /\ expanded = [a \in Addresses |-> 0]
  /\ created = <<>>
  /\ createdAtFault = -1

RECURSIVE FlattenTree(_)
\* the nodes of a forward tree, each with its descendants
FlattenTree(nodes) ==
  IF nodes = <<>> THEN <<>>
  ELSE <<Head(nodes)>> \o FlattenTree(Head(nodes).children) \o FlattenTree(Tail(nodes))

\* every node the top-level call returned
ResultNodes == IF traceConfig.direction = "forward" THEN FlattenTree(result) ELSE result

(***************************************************************************)
(* buyToken of utils/handlers/sniperooHandler                              *)
(*                                                                         *)
(* SOL amounts are in units of 0.001 SOL.                                  *)
(***************************************************************************)
\* the mint addresses a caller passes: empty, blank, and a real address
MintAddresses == {"", " ", "MintA"}
SolAmounts == {0 - 10, 0, 10}
Percents == {0, 50}

\* mintAddress.trim()
Trim(s) == IF s = " " THEN "" ELSE s

InvalidAddress_NoTrim(mintAddress) == mintAddress = ""

\* !mintAddress || typeof mintAddress !== "string" || mintAddress.trim() === ""
InvalidAddress(mintAddress) == mintAddress = "" \/ Trim(mintAddress) = ""

\* solAmount <= 0
InvalidAmount(solAmount) == solAmount <= 0

\* what axios.post does: it resolves with status 200 or another 2xx status,
\* or rejects with an AxiosError (other status, no answer) or another error
PostOutcomes == {"200", "other2xx", "axiosError", "error"}

BuyCalls ==
  [pc : {"idle"}, mintAddress : MintAddresses, solAmount : SolAmounts,
   enableAutoSell : BOOLEAN, takeProfitPercent : Percents, stopLossPercent : Percents,
   envValid : BOOLEAN, posts : {0}, autoSell : {FALSE}, returned : {"none"}]

BuyAtRest ==
  buy = [pc |-> "idle", mintAddress |-> "MintA", solAmount |-> 10,
         enableAutoSell |-> FALSE, takeProfitPercent |-> 0, stopLossPercent |-> 0,
         envValid |-> TRUE, posts |-> 0, autoSell |-> FALSE, returned |-> "none"]

\* buyToken up to its await: validateEnv (which throws into the catch block
\* when a variable is missing), the validation of the inputs, the request body
\* and the call of axios.post
BuyToken ==
  /\ buy.pc = "idle"
  /\ IF ~buy.envValid \/ InvalidAddress(buy.mintAddress) \/ InvalidAmount(buy.solAmount)
       THEN buy' = [buy EXCEPT !.pc = "returned", !.returned = "false"]
       ELSE buy' = [buy EXCEPT !.pc = "posting", !.posts = @ + 1,
                               !.autoSell = /\ buy.enableAutoSell
                                            /\ buy.takeProfitPercent # 0
                                            /\ buy.stopLossPercent # 0]
  /\ BuyOnly

\* axios.post settles: true for status 200, false for everything else
PostDone(outcome) ==
  /\ buy.pc = "posting"
  /\ buy' = [buy EXCEPT !.pc = "returned",
                        !.returned = IF outcome = "200" THEN "true" ELSE "false"]
  /\ BuyOnly

(***************************************************************************)
(* TelegramBotManager: the strategy commands                               *)
(***************************************************************************)
Strategies == {"sniffer", "copytrading", "traceFunds", "backtraceFunds"}

NoStrategies == [s \in Strategies |-> FALSE]

BotIdle ==
  bot = [activeStrategies |-> NoStrategies,
         running |-> [s \in Strategies |-> 0],
         lastCommand |-> "none",
         reported |-> NoStrategies]

\* startStrategy (/start_sniffer, /start_copytrading), startTraceFunds and
\* startBacktraceFunds (after /trace_funds and /backtrace_funds stored a valid
\* configuration): "already running" when the flag is set; otherwise the flag
\* is set and strategy.run() is awaited
StartStrategy(s) ==
  /\ IF bot.activeStrategies[s]
       THEN bot' = [bot EXCEPT !.lastCommand = "start"]
       ELSE /\ bot.running[s] < MaxRuns
            /\ bot' = [bot EXCEPT !.activeStrategies[s] = TRUE,
                                  !.running[s] = @ + 1,
                                  !.lastCommand = "start"]
  /\ BotOnly

\* strategy.run() resolves: the handler ends, no flag is written
RunReturns(s) ==
  /\ bot.running[s] > 0
  /\ bot' = [bot EXCEPT !.running[s] = @ - 1]
  /\ BotOnly

\* strategy.run() rejects: the catch block clears the flag
RunThrows(s) ==
  /\ bot.running[s] > 0
  /\ bot' = [bot EXCEPT !.running[s] = @ - 1, !.activeStrategies[s] = FALSE]
  /\ BotOnly

\* /stop: every flag is reset; the runs are not told
StopAllStrategies ==
  /\ bot' = [bot EXCEPT !.activeStrategies = NoStrategies, !.lastCommand = "stop"]
  /\ BotOnly

\* /status: the flags are reported
GetStatus ==
  /\ bot' = [bot EXCEPT !.reported = bot.activeStrategies, !.lastCommand = "status"]
  /\ BotOnly

(***************************************************************************)
(* findLastWallet and the getTransfers it calls (tracker)                  *)
(*                                                                         *)
(* The transactions are those of the ledger of the tracers; amounts are in *)
(* units of 0.001 SOL.                                                     *)
(***************************************************************************)
MIN_TRANSFER_SOL == 10
MAX_TRANSFER_SOL == 1000000000

NoWallet == "null"

\* diff >= MIN_TRANSFER_SOL && diff <= MAX_TRANSFER_SOL
InTransferRange(amount) == amount >= MIN_TRANSFER_SOL /\ amount <= MAX_TRANSFER_SOL

\* the pairs (i, j) of one transaction at which getTransfers returns: account
\* i is the address and lost an amount in range, account j gained one
HopPairs(tx, address) ==
  {p \in (1..Len(tx.keys)) \X (1..Len(tx.keys)) :
     /\ tx.keys[p[1]] = address
     /\ InTransferRange(Sent(tx, p[1]))
     /\ InTransferRange(Received(tx, p[2]))}

RECURSIVE FirstHop(_, _)
\* getTransfers: the recipient of the first pair, in loop order, of the first
\* transaction that has one; null when there is none
FirstHop(txs, address) ==
  IF txs = <<>> THEN NoWallet
  ELSE LET tx == TxPool[Head(txs)]
           pairs == HopPairs(tx, address) IN
       IF pairs = {} THEN FirstHop(Tail(txs), address)
       ELSE LET p == CHOOSE q \in pairs :
                       \A r \in pairs : q[1] < r[1] \/ (q[1] = r[1] /\ q[2] <= r[2])
            IN tx.keys[p[2]]

\* the transactions of the ledger that name the address
Named(address) == {t \in ledger : \E k \in 1..Len(TxPool[t].keys) : TxPool[t].keys[k] = address}

\* the signatures of the address whose getTransaction answer is not null
Fetched(address, missing) ==
  SelectSeq(SignaturesFor(address), LAMBDA t : t \notin missing)

\* getTransfers(address): null out of the catch block when an rpcCall failed
GetTransfers(address, failed, missing) ==
  IF failed THEN NoWallet ELSE FirstHop(Fetched(address, missing), address)

EndOfChain_NullOnly(next, seen) == next = NoWallet

\* !next || visited.has(next)
EndOfChain(next, seen) == next = NoWallet \/ next \in seen

WalkStart(start) ==
  [pc |-> "loop", start |-> start, current |-> start, visited |-> {},
   returned |-> NoWallet, lastNext |-> NoWallet, path |-> <<start>>, clean |-> TRUE]

WalkAtRest == walk = WalkStart("A")

\* the head of the while loop: the visited test, visited.add(current) and the
\* call of getTransfers(current)
LoopHead ==
  /\ walk.pc = "loop"
  /\ IF walk.current \in walk.visited
       THEN walk' = [walk EXCEPT !.pc = "done", !.returned = walk.current]
       ELSE walk' = [walk EXCEPT !.pc = "fetching", !.visited = @ \cup {walk.current}]
  /\ WalkOnly

\* getTransfers(current) returns: the chain ends at current, or goes on
GetTransfersReturns(failed, missing) ==
  /\ walk.pc = "fetching"
  /\ LET next == GetTransfers(walk.current, failed, missing)
         clean == walk.clean /\ ~failed /\ missing = {} IN
       IF EndOfChain(next, walk.visited)
         THEN walk' = [walk EXCEPT !.pc = "done", !.returned = walk.current,
                                   !.lastNext = next, !.clean = clean]
         ELSE walk' = [walk EXCEPT !.pc = "loop", !.current = next,
                                   !.path = Append(@, next), !.clean = clean]
  /\ WalkOnly

(***************************************************************************)
(* watchForTokenCreation (tracker)                                         *)
(*                                                                         *)
(* The transactions of the watched address are numbered in the order of    *)
(* their time; a transaction's number stands for its signature.            *)
(***************************************************************************)
\* getSignaturesForAddress(address, { limit: 3 })
PollLimit == 3
\* seenSignatures.size > 100
TrimAbove == 100
\* Array.from(seenSignatures).slice(-50)
KeepLast == 50

\* the number of 'initializeMint' instructions of spl-token in a transaction:
\* the transactions seen before the watch is looked at are plain transfers,
\* the later ones create no mint, one mint or two mints in turn
InitializeMints(sig) == IF sig <= TrimAbove - 2 THEN 0 ELSE sig % 3

\* the signatures a poll returns: the latest PollLimit, the newest first
Latest(n) ==
  [i \in 1..(IF n < PollLimit THEN n ELSE PollLimit) |-> n - i + 1]

Members(seq) == {seq[i] : i \in 1..Len(seq)}

\* the end of a poll: above TrimAbove entries only the last KeepLast of the
\* set, in insertion order, are kept
TrimSeen(seen) ==
  IF Len(seen) > TrimAbove THEN SubSeq(seen, Len(seen) - KeepLast + 1, Len(seen)) ELSE seen

\* the watch after n polls that each found one new plain transaction
WatchStart(n) ==
  [pc |-> "sleep", ledger |-> n, seen |-> [i \in 1..n |-> i], list |-> <<>>, k |-> 0,
   polls |-> 0, fetched |-> <<>>, buys |-> <<>>, trims |-> 0]

WatchAtRest == watch = WatchStart(0)

\* the head of the loop: `arrivals` transactions were made since the last
\* poll; rpcCall('getSignaturesForAddress') returns the latest ones, or
\* throws into the catch block, which sleeps and starts the next poll
Poll(arrivals, ok) ==
  /\ watch.pc = "sleep"
  /\ watch.polls < MaxPolls
  /\ watch' = IF ok
                THEN [watch EXCEPT !.pc = "scan", !.ledger = @ + arrivals,
                                   !.list = Latest(watch.ledger + arrivals), !.k = 1,
                                   !.polls = @ + 1]
                ELSE [watch EXCEPT !.ledger = @ + arrivals, !.polls = @ + 1]
  /\ WatchOnly

\* one round of `for (const sig of signatures)`: a seen signature is passed
\* over; for a new one rpcCall('getTransaction') throws into the catch block,
\* or the signature is added to the set and, unless the answer is null, every
\* initializeMint instruction runs the checks and `reached` of them reach
\* buyToken
Examine(answer, reached) ==
  /\ watch.pc = "scan"
  /\ watch.k <= Len(watch.list)
  /\ LET sig == watch.list[watch.k] IN
       IF sig \in Members(watch.seen)
         THEN /\ answer = "null" /\ reached = 0
              /\ watch' = [watch EXCEPT !.k = @ + 1]
       ELSE IF answer = "throws"
         THEN /\ reached = 0
              /\ watch' = [watch EXCEPT !.pc = "sleep"]
       ELSE /\ reached \in 0..(IF answer = "null" THEN 0 ELSE InitializeMints(sig))
            /\ watch' = [watch EXCEPT !.k = @ + 1,
                                      !.seen = Append(@, sig),
                                      !.fetched = Append(@, sig),
                                      !.buys = @ \o [i \in 1..reached |-> sig]]
  /\ WatchOnly

\* the end of the try block: the set is trimmed and the next poll is awaited
EndPoll ==
  /\ watch.pc = "scan"
  /\ watch.k > Len(watch.list)
  /\ watch' = [watch EXCEPT !.pc = "sleep", !.seen = TrimSeen(@),
                            !.trims = IF TrimSeen(watch.seen) # watch.seen THEN @ + 1 ELSE @]
  /\ WatchOnly

(***************************************************************************)
(* backtraceFundsStrategy.run: calculateStats and the export                *)
(*                                                                         *)
(* Times are whole units since the epoch. toISOString() gives a string of  *)
(* fixed width, modelled as the two decimal digits of the time; the source *)
(* compares these strings with < and >.                                    *)
(***************************************************************************)
BlockTimes == 1..MaxBlockTime

\* new Date(t).toISOString()
ToISOString(t) == <<t \div 10, t % 10>>

\* a < b on strings of equal length
StringLess(a, b) ==
  \E i \in 1..Len(a) : a[i] < b[i] /\ \A j \in 1..(i - 1) : a[j] = b[j]

\* the chains getIncomingTransfers can return: each node carries
\* new Date(tx.blockTime * 1000).toISOString()
Chains ==
  UNION {[1..n -> {[timestamp |-> ToISOString(t)] : t \in BlockTimes}] : n \in 0..MaxChains}

RECURSIVE StatsOver(_, _)
\* chains.forEach(node => ...): the running oldestTx and newestTx
StatsOver(chains, acc) ==
  IF chains = <<>> THEN acc
  ELSE LET node == Head(chains) IN
       StatsOver(Tail(chains),
                 [oldestTx |-> IF StringLess(node.timestamp, acc.oldestTx)
                                 THEN node.timestamp ELSE acc.oldestTx,
                  newestTx |-> IF StringLess(acc.newestTx, node.timestamp)
                                 THEN node.timestamp ELSE acc.newestTx])

\* calculateStats(chains) when the clock reads `clock`: oldestTx starts at
\* new Date().toISOString() and newestTx at new Date(0).toISOString()
calculateStats(chains, clock) ==
  StatsOver(chains, [oldestTx |-> ToISOString(clock), newestTx |-> ToISOString(0)])

NoStats == [oldestTx |-> <<>>, newestTx |-> <<>>]

ExportStart == [pc |-> "tracing", chains |-> <<>>, clock |-> 0, stats |-> NoStats]

ExportAtRest == exportRun = ExportStart

\* getIncomingTransfers returns the chains of the run
TraceReturns(chains) ==
  /\ exportRun.pc = "tracing"
  /\ exportRun' = [exportRun EXCEPT !.pc = "traced", !.chains = chains]
  /\ ExportOnly

\* run computes the stats and writes the export
Export(clock) ==
  /\ exportRun.pc = "traced"
  /\ exportRun' = [exportRun EXCEPT !.pc = "exported", !.clock = clock,
                                    !.stats = calculateStats(exportRun.chains, clock)]
  /\ ExportOnly

(***************************************************************************)
(* Specifications                                                          *)
(***************************************************************************)
DefaultAppConfig ==
  [checkMode |-> "none", allowMintAuthority |-> FALSE, allowFreezeAuthority |-> FALSE,
   ignoreEndsWithPump |-> TRUE, simulationMode |-> FALSE, maxConcurrentTransactions |-> 1]

DefaultWsConfig ==
  [initialBackoff |-> DefaultInitialBackoff, maxBackoff |-> DefaultMaxBackoff,
   maxRetries |-> Infinity, errorListener |-> FALSE]

DefaultTraceConfig ==
  [direction |-> "forward", root |-> "A", minAmount |-> 100, maxAmount |-> 10000,
   maxDepth |-> MaxDepthCfg]

AppAtRest == AppIdle /\ appConfig = DefaultAppConfig
WsAtRest == WsIdle /\ wsConfig = DefaultWsConfig /\ liquidityPools = NoPools
TraceAtRest == TraceIdle /\ traceConfig = DefaultTraceConfig /\ ledger = {}

OthersIdleForRate ==
  /\ AppAtRest /\ WsAtRest /\ TraceAtRest /\ BuyAtRest /\ BotIdle /\ WalkAtRest
  /\ WatchAtRest /\ ExportAtRest
OthersIdleForApp ==
  /\ RateIdle /\ WsAtRest /\ TraceAtRest /\ BuyAtRest /\ BotIdle /\ WalkAtRest
  /\ WatchAtRest /\ ExportAtRest
OthersIdleForWs ==
  /\ RateIdle /\ AppAtRest /\ TraceAtRest /\ BuyAtRest /\ BotIdle /\ WalkAtRest
  /\ WatchAtRest /\ ExportAtRest
OthersIdleForTrace ==
  /\ RateIdle /\ AppAtRest /\ WsAtRest /\ BuyAtRest /\ BotIdle /\ WalkAtRest
  /\ WatchAtRest /\ ExportAtRest
OthersIdleForBuy ==
  /\ RateIdle /\ AppAtRest /\ WsAtRest /\ TraceAtRest /\ BotIdle /\ WalkAtRest
  /\ WatchAtRest /\ ExportAtRest
OthersIdleForBot ==
  /\ RateIdle /\ AppAtRest /\ WsAtRest /\ TraceAtRest /\ BuyAtRest /\ WalkAtRest
  /\ WatchAtRest /\ ExportAtRest
OthersIdleForWalk ==
  /\ RateIdle /\ AppAtRest /\ WsAtRest /\ BuyAtRest /\ BotIdle
  /\ TraceIdle /\ traceConfig = DefaultTraceConfig
  /\ WatchAtRest /\ ExportAtRest

OthersIdleForWatch ==
  /\ RateIdle /\ AppAtRest /\ WsAtRest /\ TraceAtRest /\ BuyAtRest /\ BotIdle /\ WalkAtRest
  /\ ExportAtRest
OthersIdleForExport ==
  /\ RateIdle /\ AppAtRest /\ WsAtRest /\ TraceAtRest /\ BuyAtRest /\ BotIdle /\ WalkAtRest
  /\ WatchAtRest

InitRate == RateIdle /\ OthersIdleForRate

NextRate ==
  \/ \E c \in Callers : RpcCall(c)
  \/ \E c \in Callers : Resume(c)
  \/ \E c \in Callers, o \in Outcomes : Respond(c, o)
  \/ \E c \in Callers : Return(c)
  \/ Tick

SpecRate == InitRate /\ [][NextRate]_vars

\* a burst: maxRequests + 1 invocations of rpcCall issued at one instant, which
\* is time 0; RATE_LIMIT was created then or up to three ticks earlier and no
\* request was made before
BurstCallers == 1..(maxRequests + 1)

AllIssued == \A c \in BurstCallers : callers[c].pc # "idle"

InitBurst ==
  /\ now = 0
  /\ queue = <<>>
  /\ lastReset \in {0 - k * TickMs : k \in 0..3}
  /\ callers = [c \in BurstCallers |->
       [pc |-> "idle", retries |-> DefaultRetries, sent |-> 0, wake |-> 0, why |-> "none",
        last |-> "none"]]
  /\ admitted = <<>>
  /\ OthersIdleForRate

\* the answers of the burst: the first BurstFaulty invocations may fail and be
\* retried, the others succeed
BurstOutcomes(c) == IF c <= BurstFaulty THEN Outcomes ELSE {"ok"}

\* time passes once the whole burst was issued
BurstTick ==
  /\ AllIssued
  /\ Tick

NextBurst ==
  \/ \E c \in BurstCallers : RpcCall(c)
  \/ \E c \in BurstCallers : Resume(c)
  \/ \E c \in BurstCallers : \E o \in BurstOutcomes(c) : Respond(c, o)
  \/ BurstTick

SpecBurst == InitBurst /\ [][NextBurst]_vars

\* every sleep ends, every request is answered and time passes
SpecBurstFair == SpecBurst /\ WF_vars(NextBurst)

InitApp == AppIdle /\ appConfig \in AppConfigs /\ OthersIdleForApp

NextApp ==
  \/ \E k \in MessageKinds : \E s \in SignaturesOf(k) : HandleWebSocketMessage(k, s)
  \/ \E e \in EventIds, t \in BOOLEAN : ExtractDone(e, t)
  \/ \E e \in EventIds, l \in AuthorityLookups : CheckDone(e, l)
  \/ \E e \in EventIds, r \in {"success", "failure", "exception"} : TradeDone(e, r)

SpecApp == InitApp /\ [][NextApp]_vars

\* simulation mode under every check mode and every setting of the flags the
\* mode reads, and beside it the live app with the checks off; the largest
\* maxConcurrentTransactions
ModeConfigs ==
  {cfg \in [checkMode : {"snipe", "full", "none"},
            allowMintAuthority : BOOLEAN,
            allowFreezeAuthority : BOOLEAN,
            ignoreEndsWithPump : BOOLEAN,
            simulationMode : BOOLEAN,
            maxConcurrentTransactions : {MaxConcurrent}] :
     /\ cfg.checkMode # "snipe" => ~cfg.allowMintAuthority /\ ~cfg.allowFreezeAuthority
     /\ cfg.checkMode # "full" => cfg.ignoreEndsWithPump
     /\ ~cfg.simulationMode => cfg.checkMode = "none"}

InitModes == AppIdle /\ appConfig \in ModeConfigs /\ OthersIdleForApp

SpecModes == InitModes /\ [][NextApp]_vars

\* the app in snipe mode while the RPC node is out of reach: every call of
\* getTokenAuthorities fails into its catch block
InitLookupFails ==
  /\ AppIdle
  /\ appConfig \in {cfg \in AppConfigs : cfg.checkMode = "snipe"}
  /\ OthersIdleForApp

NextLookupFails ==
  \/ \E k \in MessageKinds : \E s \in SignaturesOf(k) : HandleWebSocketMessage(k, s)
  \/ \E e \in EventIds, t \in BOOLEAN : ExtractDone(e, t)
  \/ \E e \in EventIds : CheckDone(e, "lookupFailed")
  \/ \E e \in EventIds, r \in {"success", "failure", "exception"} : TradeDone(e, r)

SpecLookupFails == InitLookupFails /\ [][NextLookupFails]_vars

InitWs == WsIdle /\ wsConfig \in WsConfigs /\ liquidityPools = NoPools /\ OthersIdleForWs

NextWs ==
  \/ Connect
  \/ Close
  \/ \E s \in SocketIds : SocketOpen(s)
  \/ \E s \in SocketIds : SocketFail(s)
  \/ \E s \in SocketIds : SocketDrop(s)
  \/ \E s \in SocketIds : SocketError(s)
  \/ \E s \in SocketIds : SocketClosed(s)
  \/ \E t \in timers : ReconnectTimer(t)

SpecWs == InitWs /\ [][NextWs]_vars

\* the manager as TokenTrackerApp owns it: DEFAULT_WS_CONFIG, listeners for
\* 'open' and 'message' only, start() calls connect() once and close() is
\* never called; the app's 'open' listener over every setting of the pools,
\* and send called at any time
FeedWsConfigs ==
  [initialBackoff : {DefaultInitialBackoff},
   maxBackoff : {DefaultMaxBackoff},
   maxRetries : {Infinity},
   errorListener : {FALSE}]

InitFeed ==
  /\ WsIdle
  /\ wsConfig \in FeedWsConfigs
  /\ liquidityPools \in PoolConfigs
  /\ OthersIdleForWs

\* TokenTrackerApp.start(): the listeners are registered, then connect()
Start ==
  /\ ws = 0
  /\ Connect

NextFeed ==
  \/ Start
  \/ \E s \in SocketIds : SocketOpen(s)
  \/ \E s \in SocketIds : SocketFail(s)
  \/ \E s \in SocketIds : SocketDrop(s)
  \/ \E s \in SocketIds : SocketError(s)
  \/ \E s \in SocketIds : SocketClosed(s)
  \/ \E t \in timers : ReconnectTimer(t)
  \/ \E data \in Payloads : Send(data)

SpecFeed == InitFeed /\ [][NextFeed]_vars

InitTrace ==
  /\ TraceIdle
  /\ traceConfig \in TraceConfigs
  /\ ledger \in SUBSET TxIds
  /\ OthersIdleForTrace

NextTrace ==
  \/ StartTrace
  \/ \E ok \in BOOLEAN : FetchSignatures(ok)
  \/ \E answer \in {"ok", "null", "fail"} : FetchTransaction(answer)
  \/ Scan
  \/ ReturnNodes

SpecTrace == InitTrace /\ [][NextTrace]_vars

\* every pending rpcCall returns or fails, and the code between two awaits runs
SpecTraceFair == SpecTrace /\ WF_vars(NextTrace)


InitBuy == buy \in BuyCalls /\ OthersIdleForBuy

NextBuy ==
  \/ BuyToken
  \/ \E o \in PostOutcomes : PostDone(o)

SpecBuy == InitBuy /\ [][NextBuy]_vars

InitBot == BotIdle /\ OthersIdleForBot

NextBot ==
  \/ \E s \in Strategies : StartStrategy(s)
  \/ \E s \in Strategies : RunReturns(s)
  \/ \E s \in Strategies : RunThrows(s)
  \/ StopAllStrategies
  \/ GetStatus

SpecBot == InitBot /\ [][NextBot]_vars

InitWalk ==
  /\ walk \in {WalkStart(a) : a \in Addresses}
  /\ ledger \in SUBSET TxIds
  /\ OthersIdleForWalk

NextWalk ==
  \/ LoopHead
  \/ GetTransfersReturns(TRUE, {})
  \/ \E missing \in SUBSET Named(walk.current) : GetTransfersReturns(FALSE, missing)

SpecWalk == InitWalk /\ [][NextWalk]_vars

\* every awaited rpcCall settles, and the loop runs on
SpecWalkFair == SpecWalk /\ WF_vars(NextWalk)

\* the watch is looked at when its set holds nearly TrimAbove signatures
InitWatch ==
  /\ watch \in {WatchStart(n) : n \in (TrimAbove - 2)..TrimAbove}
  /\ OthersIdleForWatch

NextWatch ==
  \/ \E arrivals \in 0..(PollLimit + 1), ok \in BOOLEAN : Poll(arrivals, ok)
  \/ \E answer \in {"tx", "null", "throws"}, reached \in 0..2 : Examine(answer, reached)
  \/ EndPoll

SpecWatch == InitWatch /\ [][NextWatch]_vars

\* one export of a backward trace; the clock of the machine may be behind
\* the block times
InitExport == exportRun = ExportStart /\ OthersIdleForExport

NextExport ==
  \/ \E chains \in Chains : TraceReturns(chains)
  \/ \E clock \in 1..(MaxBlockTime + 1) : Export(clock)

SpecExport == InitExport /\ [][NextExport]_vars

(***************************************************************************)
(* Claims                                                                  *)
(***************************************************************************)
\* C1: the number of requests admitted within any trailing interval of
\* windowMs never exceeds maxRequests.
C1_WindowNeverExceeded == Len(admitted) <= maxRequests

\* C2: 0 <= activeTransactions <= maxConcurrentTransactions in every reachable
\* state, and an event that arrived while the gate was at its cap is dropped:
\* it is in no later state queued or in processing.
C2_GateBounded ==
  /\ 0 <= activeTransactions
  /\ activeTransactions <= appConfig.maxConcurrentTransactions
  /\ \A e \in EventIds : events[e].atCap => events[e].status = "dropped"

\* an event arrived at a full gate while two dispatches were in flight
C2_Witness ==
  \E e \in EventIds :
    /\ events[e].status = "dropped"
    /\ events[e].atCap
    /\ Cardinality(InFlight) = 2

C4_CloseIsTerminal == closed => (timers = {} /\ ~reconnectedWhileClosed)

\* C5: in one run of a tracer no address is expanded (has its transactions
\* fetched) more than once, and the addresses expanded are exactly those in
\* the visited set.
C5_ExpandedAtMostOnce ==
  \A a \in Addresses :
    /\ expanded[a] <= 1
    /\ expanded[a] = 1 <=> a \in visited

\* a finished run met the root again as a counterparty, at a depth where
\* only the visited set kept it from being expanded a second time
C5_Witness ==
  /\ tracePc = "done"
  /\ expanded[traceConfig.root] = 1
  /\ \E k \in 1..Len(created) :
       /\ created[k].address = traceConfig.root
       /\ created[k].depth + 1 < traceConfig.maxDepth

\* C6: every node of the tree (forward) or of the chains (backward) that a
\* trace returns has a depth that does not exceed maxDepth.
C6_DepthWithinMaxDepth ==
  tracePc = "done" =>
    \A k \in 1..Len(ResultNodes) : ResultNodes[k].depth <= traceConfig.maxDepth

\* a finished run returned a node on the deepest level allowed whose address
\* was never expanded: the depth limit, not the visited set, ended the branch
C6_Witness ==
  /\ tracePc = "done"
  /\ \E k \in 1..Len(ResultNodes) :
       /\ ResultNodes[k].depth = traceConfig.maxDepth - 1
       /\ ResultNodes[k].address \notin visited

\* C7: a forward trace and a backward trace terminate on every ledger,
\* those with cycles and self-transfers included, for every maxDepth >= 0,
\* provided every rpcCall returns or fails.
C7_TraceTerminates == <>(tracePc = "done")

\* a trace over a ledger in which A pays B, B pays A and A pays itself ended
\* after it had expanded both addresses
C7_Witness ==
  /\ tracePc = "done"
  /\ {1, 2, 7} \subseteq ledger
  /\ traceConfig.maxDepth >= 2
  /\ expanded["A"] = 1
  /\ expanded["B"] = 1

NodeKeys(nodes) ==
  [k \in 1..Len(nodes) |-> [address |-> nodes[k].address, depth |-> nodes[k].depth]]
Occurrences(seq, x) == Cardinality({k \in 1..Len(seq) : seq[k] = x})

\* C8: a failed fetch of signatures or of a transaction does not fail the
\* trace: the top-level call returns, and what it returns holds every node
\* created in the run, those created before the failure and those created
\* after it.
C8_FailureKeepsNodes ==
  tracePc = "done" =>
    /\ Len(ResultNodes) = Len(created)
    /\ \A k \in 1..Len(created) :
         Occurrences(NodeKeys(ResultNodes), created[k]) = Occurrences(created, created[k])

\* a finished run in which an rpcCall failed after a node had been created and
\* further nodes were created after the failure
C8_Witness ==
  /\ tracePc = "done"
  /\ createdAtFault >= 1
  /\ Len(created) > createdAtFault
  /\ Len(ResultNodes) = Len(created)

\* C9 (as claimed): between two successful Opens the k-th scheduled reconnect
\* delay (k = 0, 1, 2, ...) equals min(initialBackoff * 2^k, maxBackoff).
\* Stated for the runs in which no connect() replaced a live socket or ran
\* over a pending reconnect timer, and no delay was scheduled after close().
C9_KthDelayByCloseCount ==
  (~overlapped /\ \A i \in 1..Len(delays) : ~delays[i].afterClose) =>
    \A i \in 1..Len(delays) :
      delays[i].delay = Min(wsConfig.initialBackoff * 2^(i - 1), wsConfig.maxBackoff)

\* C9 (amended): every scheduled reconnect delay equals
\* min(initialBackoff * 2^r, maxBackoff), r being the number of reconnect
\* timers that fired since the last successful Open (not the number of
\* closes); between two successful Opens the delays are non-decreasing and
\* never exceed maxBackoff.
C9_DelayByRetryCount ==
  \A i \in 1..Len(delays) :
    /\ delays[i].delay =
         Min(wsConfig.initialBackoff * 2^(delays[i].attempts), wsConfig.maxBackoff)
    /\ delays[i].delay <= wsConfig.maxBackoff
    /\ i > 1 => delays[i - 1].delay <= delays[i].delay

\* three closes in a row without an Open: the delay doubled, then met the cap
C9_Witness ==
  /\ Len(delays) >= 3
  /\ delays[1].delay = wsConfig.initialBackoff
  /\ delays[2].delay = 2 * wsConfig.initialBackoff
  /\ delays[3].delay = wsConfig.maxBackoff
  /\ delays[3].attempts = 2

\* C10: the first reconnect delay scheduled after a successful Open is
\* exactly initialBackoff.
C10_FirstDelayAfterOpen ==
  (everOpened /\ Len(delays) >= 1) => delays[1].delay = wsConfig.initialBackoff

\* C11: with a finite maxRetries = N, the number of reconnect attempts made
\* since the last successful Open (or since the start) never exceeds N.
C11_AttemptsWithinMaxRetries ==
  wsConfig.maxRetries.finite => attempts <= wsConfig.maxRetries.n

\* C12: send(data) fails with the not-connected error and transmits nothing
\* whenever there is no socket or the socket is not Open, and transmits the
\* payload only when the socket is Open.
C12_SendOnlyWhenOpen ==
  lastSend.result # "none" =>
    /\ lastSend.result = "sent" <=> lastSend.readyState = "OPEN"
    /\ lastSend.result = "notConnected" <=> lastSend.readyState # "OPEN"
    /\ lastSend.transmitted # "" <=> lastSend.readyState = "OPEN"

\* send was refused while the closed socket was waiting for its reconnect timer
C12_Witness ==
  /\ lastSend.result = "notConnected"
  /\ lastSend.readyState = "CLOSED"
  /\ lastSend.timerPending

\* C13: every step in which a socket reaches Open, on the first connect and
\* on every reconnect, sends exactly one logsSubscribe message for each
\* enabled pool and none for a disabled pool, and no other step sends one.
C13_SubscribedOnEveryOpen ==
  [][\A s \in SocketIds :
       IF sockets[s].state = "CONNECTING" /\ sockets'[s].state = "OPEN"
         THEN \A p \in Pools :
                subscribed'[s][p] = subscribed[s][p] + (IF liquidityPools[p] THEN 1 ELSE 0)
         ELSE subscribed'[s] = subscribed[s]]_vars

\* with one pool enabled and one disabled, the subscription was sent on the
\* first socket and again on the socket of a reconnect
C13_Witness ==
  /\ liquidityPools["pool1"] /\ ~liquidityPools["pool2"]
  /\ attempts = 0
  /\ \E s1, s2 \in SocketIds :
       /\ s1 < s2
       /\ sockets[s1].state = "CLOSED"
       /\ sockets[s2].state = "OPEN"
       /\ subscribed[s1] = [p \in Pools |-> IF p = "pool1" THEN 1 ELSE 0]
       /\ subscribed[s2] = [p \in Pools |-> IF p = "pool1" THEN 1 ELSE 0]

\* C14: a transport error never terminates the process: after a socket of
\* the manager that TokenTrackerApp owns emitted 'error', the process is
\* still running.
C14_TransportErrorNotFatal == ~wsConfig.errorListener => ~crashed

\* C15: every dispatch that incremented activeTransactions decrements it
\* exactly once, on every exit path: in every state activeTransactions is the
\* number of dispatches in flight, and 0 when none is.
C15_SlotsMatchInFlight == activeTransactions = Cardinality(InFlight)

\* no dispatch is in flight after three of them left on three different
\* paths: a rejected check, a duplicate mint and an exception
C15_Witness ==
  /\ InFlight = {}
  /\ activeTransactions = 0
  /\ \E e1, e2, e3 \in EventIds :
       /\ events[e1].status = "done" /\ events[e1].why \in {"mintAuthority", "freezeAuthority", "pump"}
       /\ events[e2].status = "done" /\ events[e2].why = "duplicate"
       /\ events[e3].status = "done" /\ events[e3].why = "exception"

C17_ExhaustedBudgetPropagates ==
  \A c \in DOMAIN callers :
    /\ callers[c].pc = "done" => callers[c].last = "ok"
    /\ callers[c].pc = "failed" => callers[c].last \in Outcomes \ {"ok"} /\ callers[c].retries = 0
    /\ (callers[c].pc = "sleep" /\ callers[c].last \in Outcomes \ {"ok"}) => callers[c].retries >= 0
    /\ (callers[c].last \in Outcomes \ {"ok"} /\ callers[c].pc # "sleep") => callers[c].pc = "failed"

\* an invocation failed to its caller after its first attempt and all its
\* retries had failed
C17_Witness ==
  \E c \in DOMAIN callers :
    /\ callers[c].pc = "failed"
    /\ callers[c].retries = 0
    /\ callers[c].sent = DefaultRetries + 1

\* C18: of maxRequests + 1 = 5 invocations of rpcCall issued at the same
\* instant (time 0), 4 are admitted at once, and the 5th is admitted no
\* earlier than windowMs = 2000 ms after the admission of the 1st.
C18_FifthWaitsForWindow ==
  LET admittedCalls == {c \in DOMAIN callers : callers[c].sent >= 1} IN
    /\ Cardinality(admittedCalls) > maxRequests => now >= windowMs
    /\ (now = 0 /\ \A c \in DOMAIN callers : callers[c].pc # "idle")
         => Cardinality(admittedCalls) = maxRequests

\* the 5th invocation of a burst slept for the window and was then admitted
C18_Witness ==
  /\ Cardinality(DOMAIN callers) = maxRequests + 1
  /\ \A c \in DOMAIN callers : callers[c].sent >= 1
  /\ \E c \in DOMAIN callers : callers[c].pc = "inflight" /\ callers[c].sent = 1
  /\ now = windowMs

\* C19: a rejection by a policy check ends the dispatch with no execution
\* call. In snipe mode the mint authority is tested before the freeze
\* authority, so a mint with both is rejected for its mint authority; in full
\* mode a mint ending in 'pump' is rejected when ignoreEndsWithPump is set.
\* The step that records a rejection calls executeTrade for no mint and
\* finishes the event, and a rejected event stays finished.
Rejections == {"mintAuthority", "freezeAuthority", "pump"}

FirstFailingCheck ==
  \A cfg \in AppConfigs, m \in Mints, l \in AuthorityLookups :
    LET verdict == performSecurityChecks(cfg, m, l)
        st == getTokenAuthorities(l)
        mintRejected == cfg.checkMode = "snipe" /\ st.hasMintAuthority
                          /\ ~cfg.allowMintAuthority
        freezeRejected == cfg.checkMode = "snipe" /\ st.hasFreezeAuthority
                            /\ ~cfg.allowFreezeAuthority
        pumpRejected == cfg.checkMode = "full" /\ EndsWithPump(m)
                          /\ cfg.ignoreEndsWithPump IN
      /\ verdict = "mintAuthority" <=> mintRejected
      /\ verdict = "freezeAuthority" <=> (freezeRejected /\ ~mintRejected)
      /\ verdict = "pump" <=> pumpRejected
      /\ verdict = "pass" <=> ~(mintRejected \/ freezeRejected \/ pumpRejected)

C19_RejectionStopsDispatch ==
  /\ [](FirstFailingCheck /\ \A e \in EventIds :
          events[e].why \in Rejections => events[e].status = "done" /\ events[e].checked)
  /\ [][\A e \in EventIds :
          (events[e].why \notin Rejections /\ events'[e].why \in Rejections)
            => /\ events[e].status = "checking"
               /\ executions' = executions
               /\ activeTransactions' = activeTransactions - 1]_vars
  /\ [][\A e \in EventIds :
          events[e].why \in Rejections => events'[e] = events[e]]_vars

\* both authority rejections happened in one run (the first for a mint that has
\* both authorities or only the mint authority) and no trade was executed
C19_Witness ==
  /\ appConfig.checkMode = "snipe"
  /\ \E e1, e2 \in EventIds :
       /\ events[e1].status = "done" /\ events[e1].why = "mintAuthority"
       /\ events[e2].status = "done" /\ events[e2].why = "freezeAuthority"
  /\ \A m \in Mints : executions[m] = 0
  /\ activeTransactions = 0

\* C20: an exception raised while one feed message is handled (the payload
\* does not parse, the detail fetch or the trade call throws) ends in the catch
\* block of the handler: the event is finished, no rejection escapes the
\* handler, the slot the event took is free again, and the dispatcher accepts
\* the next message.
C20_ExceptionCaughtInHandler ==
  /\ Running
  /\ \A e \in EventIds :
       events[e].why = "exception" => events[e].status \in {"skipped", "done"}
  /\ (\E e \in EventIds : events[e].why = "exception")
       => /\ activeTransactions = Cardinality(InFlight)
          /\ delivered < MaxEvents
               => ENABLED (\E s \in Signatures : HandleWebSocketMessage("match", s))

\* with one slot: an unparsable message, then an event whose detail fetch threw,
\* then an event that was admitted after it and whose trade call threw
C20_Witness ==
  /\ appConfig.maxConcurrentTransactions = 1
  /\ \E e1, e2, e3 \in EventIds :
       /\ e1 < e2 /\ e2 < e3
       /\ events[e1].status = "skipped" /\ events[e1].why = "exception"
       /\ events[e2].status = "done" /\ events[e2].why = "exception" /\ ~events[e2].checked
       /\ events[e3].status = "done" /\ events[e3].why = "exception" /\ events[e3].checked
  /\ activeTransactions = 0

\* C21: a feed message the filter discards (a subscription confirmation, an
\* RPC error, no logs array or no signature, no instruction of an enabled pool)
\* has no side effect: the step that handles it leaves activeTransactions,
\* currentMint, the execution calls and every earlier event as they were, and
\* an event that handed no signature to processTransaction is never fetched,
\* checked or traded.
C21_DiscardedMessageNoEffect ==
  /\ [](\A e \in EventIds :
          events[e].signature = ""
            => events[e].status \in {"none", "skipped", "dropped"} /\ ~events[e].checked)
  /\ [][\A e \in EventIds :
          (events[e].status = "none" /\ events'[e].status = "skipped"
             /\ events'[e].why = "")
            => /\ activeTransactions' = activeTransactions
               /\ currentMint' = currentMint
               /\ executions' = executions
               /\ \A f \in EventIds \ {e} : events'[f] = events[f]]_vars

\* a discarded message arrived while a dispatch was in flight and after a
\* trade: the slot count and currentMint are those of the dispatches alone
C21_Witness ==
  \E e1, e2, e3 \in EventIds :
    /\ e1 < e2 /\ e2 < e3
    /\ events[e1].status = "done" /\ events[e1].why = "success"
    /\ events[e2].status = "skipped" /\ events[e2].why = ""
    /\ events[e3].status = "extracting"
    /\ activeTransactions = 1
    /\ currentMint = extractMintAddress(events[e1].signature)

\* C22: the duplicate checks happen in arrival order. An event has passed
\* its duplicate check once it was found a duplicate or performSecurityChecks
\* was called for it; no event passes the check while a later event has
\* passed it already.
DedupDone(ev) == ev.checked \/ ev.why = "duplicate"

SingleTransferScenario ==
  /\ traceConfig = [direction |-> "forward", root |-> "A", minAmount |-> 100,
                    maxAmount |-> 10000, maxDepth |-> 2]
  /\ ledger = {1}
  /\ faults = 0

C23_SingleTransferTree ==
  (SingleTransferScenario /\ tracePc = "done")
    => result = <<[address |-> "B", amount |-> 500, children |-> <<>>, depth |-> 0]>>

\* the trace of the scenario is complete and B was searched for transfers
C23_Witness ==
  /\ SingleTransferScenario
  /\ tracePc = "done"
  /\ expanded = [a \in Addresses |-> IF a \in {"A", "B"} THEN 1 ELSE 0]
  /\ Len(result) = 1

\* C24: a call of buyToken with an empty or blank token address, or with a
\* SOL amount <= 0, sends no request to the execution API and, once it has
\* returned, has returned false.
C24_InvalidInputNeverBuys ==
  (buy.mintAddress \in {"", " "} \/ buy.solAmount <= 0)
    => /\ buy.posts = 0
       /\ buy.pc # "posting"
       /\ buy.returned # "true"
       /\ buy.pc = "returned" => buy.returned = "false"

\* a call with a blank address and otherwise valid input has returned false
C24_Witness ==
  /\ buy.pc = "returned"
  /\ buy.mintAddress = " "
  /\ buy.solAmount > 0
  /\ buy.envValid
  /\ buy.returned = "false"
  /\ buy.posts = 0

\* C25: once /stop was handled (and no other command since), no strategy run
\* is in progress.
C25_StopStopsRuns ==
  bot.lastCommand = "stop" => \A s \in Strategies : bot.running[s] = 0

\* C26: activeStrategies[s] is true exactly when a run of strategy s is in
\* progress, and /status reports the flags.
C26_FlagsMatchRuns ==
  /\ \A s \in Strategies : bot.activeStrategies[s] <=> bot.running[s] > 0
  /\ bot.lastCommand = "status" => bot.reported = bot.activeStrategies

\* C27: findLastWallet terminates on every transfer graph, cyclic ones
\* included. What it returns is the last wallet of the chain from start: the
\* chain visits distinct wallets, each the first qualifying recipient of its
\* predecessor (among the transactions the node handed out), and the returned
\* wallet's own lookup gave no recipient or one the chain had visited. With
\* every lookup answered in full the chain is the chain of first hops.
PossibleHops(address) ==
  {FirstHop(<<t>>, address) : t \in ledger} \cup {NoWallet}

LastWalletOfChain ==
  LET path == walk.path
      n == Len(path)
      wallets == {path[k] : k \in 1..n} IN
    /\ path[1] = walk.start
    /\ walk.returned = path[n]
    /\ \A k, l \in 1..n : k # l => path[k] # path[l]
    /\ walk.visited = wallets
    /\ \A k \in 1..(n - 1) : path[k + 1] \in PossibleHops(path[k]) \ {NoWallet}
    /\ walk.lastNext \in PossibleHops(walk.returned)
    /\ walk.lastNext = NoWallet \/ walk.lastNext \in wallets
    /\ walk.clean =>
         /\ \A k \in 1..(n - 1) : path[k + 1] = GetTransfers(path[k], FALSE, {})
         /\ walk.lastNext = GetTransfers(walk.returned, FALSE, {})

C27_FindLastWalletTerminates ==
  /\ <>(walk.pc = "done")
  /\ [](walk.pc = "done" => LastWalletOfChain)

\* a cycle A -> B -> C -> A, every lookup answered: the walk from A ended at C,
\* whose next hop A was visited
C27_Witness ==
  /\ walk.pc = "done"
  /\ walk.clean
  /\ walk.path = <<"A", "B", "C">>
  /\ walk.returned = "C"
  /\ walk.lastNext = "A"

\* C28: in a forward trace whose RPC calls were all answered, the nodes
\* under the root are one per qualifying recipient of each of the root's
\* transactions: a transaction with several recipients in range gives several
\* siblings of depth 0, each with the amount that recipient received.
RootEdges ==
  {e \in ledger \X (1..3) \X (1..3) :
     LET tx == TxPool[e[1]] IN
       /\ e[2] <= Len(tx.keys) /\ e[3] <= Len(tx.keys)
       /\ e[2] # e[3]
       /\ tx.keys[e[2]] = traceConfig.root
       /\ tx.pre[e[2]] - tx.post[e[2]] >= traceConfig.minAmount
       /\ tx.pre[e[2]] - tx.post[e[2]] <= traceConfig.maxAmount
       /\ tx.post[e[3]] - tx.pre[e[3]] >= traceConfig.minAmount
       /\ tx.post[e[3]] - tx.pre[e[3]] <= traceConfig.maxAmount}

C29_RequestsWithinBudget ==
  \A c \in DOMAIN callers :
    LET failures == DefaultRetries - callers[c].retries IN
      /\ callers[c].retries >= 0
      /\ callers[c].retries <= DefaultRetries
      /\ callers[c].sent <= DefaultRetries + 1
      /\ callers[c].pc = "idle" => callers[c].sent = 0 /\ failures = 0
      /\ callers[c].pc = "sleep" => callers[c].sent = failures
      /\ callers[c].pc = "inflight" => callers[c].sent = failures + 1
      /\ callers[c].pc = "done" => callers[c].sent = failures + 1
      /\ callers[c].pc = "failed" =>
           callers[c].sent = DefaultRetries + 1 /\ callers[c].retries = 0

\* an invocation used its whole budget and its last attempt hit the rate limit
C29_Witness ==
  \E c \in DOMAIN callers :
    /\ callers[c].pc = "failed"
    /\ callers[c].last = "rateLimited"
    /\ callers[c].sent = DefaultRetries + 1
    /\ callers[c].retries = 0

\* the caller sleeps before the retry of a failed attempt
AwaitsRetry(c) ==
  callers[c].pc = "sleep" /\ callers[c].why \in {"rateLimited", "error"}

\* C30: an attempt that fails with budget left at time now is followed by a
\* sleep that ends at now + windowMs after a rate-limit-class error and at
\* now + 1000 ms after any other failure; the clock never runs backwards and
\* the caller does nothing before the sleep has ended; what it does then is
\* the admission check of rpcCall, which either records and sends the request
\* with room in the queue, or makes the caller wait without a request sent.
C30_RetryWaitsThenReadmitted ==
  [][\A c \in DOMAIN callers :
       /\ now' >= now
       /\ (callers[c].pc = "inflight" /\ callers'[c].pc = "sleep") =>
            /\ callers[c].retries > 0
            /\ callers'[c].last # "ok"
            /\ callers'[c].why = "rateLimited" <=> callers'[c].last = "rateLimited"
            /\ callers'[c].wake =
                 now + (IF callers'[c].last = "rateLimited"
                          THEN windowMs ELSE RetryBackoffMs)
       /\ (AwaitsRetry(c) /\ callers'[c] # callers[c]) =>
            /\ now >= callers[c].wake
            /\ now' = now
            /\ \/ /\ callers'[c].pc = "inflight"
                  /\ callers'[c].sent = callers[c].sent + 1
                  /\ Len(QueueAtEntry) < maxRequests
                  /\ queue' = Append(QueueAtEntry, now)
               \/ /\ callers'[c].pc = "sleep"
                  /\ callers'[c].why = "full"
                  /\ callers'[c].sent = callers[c].sent
                  /\ callers'[c].retries = callers[c].retries
                  /\ Len(QueueAtEntry) >= maxRequests
                  /\ queue' = QueueAtEntry
       /\ (callers[c].pc = "sleep" /\ callers[c].why = "full"
             /\ callers'[c].pc = "inflight") =>
            /\ now >= callers[c].wake
            /\ Len(QueueAtEntry) < maxRequests
            /\ queue' = Append(QueueAtEntry, now)]_vars

\* one caller has slept a full window after a rate-limit-class error and
\* another the short backoff after another failure; both are about to retry
C30_Witness ==
  \E c, d \in DOMAIN callers :
    /\ callers[c].pc = "sleep" /\ callers[c].why = "rateLimited"
    /\ callers[c].wake = now
    /\ callers[c].retries = DefaultRetries - 1
    /\ callers[d].pc = "sleep" /\ callers[d].why = "error"
    /\ callers[d].wake = now
    /\ callers[d].retries < DefaultRetries - 1

\* the caller found the window full and sleeps for waitTime
AwaitsAdmission(c) ==
  callers[c].pc = "sleep" /\ callers[c].why = "full"

\* the sleep of the caller ends after the last instant of the clock
BeyondHorizon(c) == callers[c].wake > MaxTime

\* C31: an invocation that finds the window full is not dropped and not sent:
\* it sleeps with its request count and its retry budget unchanged, does
\* nothing before the sleep has ended, and then runs the admission check
\* again, which admits it with room in the queue or makes it wait again; among
\* the finitely many invocations of a burst every waiting one is eventually
\* admitted: a waiting caller leaves its wait only by being admitted, and again
\* and again no caller waits, unless for a sleep that ends after the last
\* instant of the clock.
C31_WaiterEventuallyAdmitted ==
  /\ []<>(\A c \in DOMAIN callers : AwaitsAdmission(c) => BeyondHorizon(c))
  /\ [][\A c \in DOMAIN callers :
          /\ (~AwaitsAdmission(c) /\ AwaitsAdmission(c)') =>
               /\ callers[c].pc \in {"idle", "sleep"}
               /\ callers'[c].sent = callers[c].sent
               /\ callers'[c].retries = callers[c].retries
               /\ Len(queue') >= maxRequests
               /\ callers'[c].wake > now
          /\ (AwaitsAdmission(c) /\ callers'[c] # callers[c]) =>
               /\ now >= callers[c].wake
               /\ callers'[c].retries = callers[c].retries
               /\ \/ /\ callers'[c].pc = "inflight"
                     /\ callers'[c].sent = callers[c].sent + 1
                     /\ Len(QueueAtEntry) < maxRequests
                     /\ queue' = Append(QueueAtEntry, now)
                  \/ /\ AwaitsAdmission(c)'
                     /\ callers'[c].sent = callers[c].sent
                     /\ Len(QueueAtEntry) >= maxRequests
                     /\ queue' = QueueAtEntry]_vars

\* an invocation of the burst that had to wait for admission has its first
\* request in flight, with its whole budget, while another that was answered
\* with an error waits for admission in its turn
C31_Witness ==
  \E c, d \in DOMAIN callers :
    /\ Cardinality(DOMAIN callers) = maxRequests + 1
    /\ now >= windowMs
    /\ callers[c].pc = "inflight"
    /\ callers[c].sent = 1
    /\ callers[c].retries = DefaultRetries
    /\ AwaitsAdmission(d)
    /\ callers[d].sent >= 1

\* call k of the recursion awaits an answer of rpcCall
Outstanding(k) ==
  \/ stack[k].phase = "signatures"
  \/ stack[k].phase = "transaction" /\ stack[k].si <= Len(stack[k].sigs)

\* call k of the recursion has nothing left to do but `return nodes`
Completed(frame) ==
  frame.phase = "return" \/ (frame.phase = "transaction" /\ frame.si > Len(frame.sigs))

\* C32: the requests of one trace are issued one after another. At any time
\* at most one call of the recursion awaits an answer of rpcCall, and it is the
\* innermost one: every other call awaits the call it made for a counterparty.
\* A call that awaits a counterparty's call does not move (same transaction,
\* same pair of accounts, same nodes) until that call is completed, and goes
\* on with the next account only then.
C32_SequentialRequests ==
  /\ [](/\ Cardinality({k \in 1..Len(stack) : Outstanding(k)}) <= 1
        /\ \A k \in 1..Len(stack) :
             k < Len(stack) <=> stack[k].phase = "recursing")
  /\ [][/\ \A k \in 1..Len(stack) :
             (k < Len(stack) /\ k < Len(stack')) => stack'[k] = stack[k]
        /\ (stack # <<>> /\ Len(stack') < Len(stack)) =>
             /\ Len(stack') = Len(stack) - 1
             /\ Completed(stack[Len(stack)])
             /\ stack' # <<>> =>
                  /\ stack'[Len(stack')].phase = "scan"
                  /\ stack'[Len(stack')].si = stack[Len(stack')].si
                  /\ stack'[Len(stack')].i = stack[Len(stack')].i
                  /\ stack'[Len(stack')].j = stack[Len(stack')].j + 1
        /\ Len(stack') > Len(stack) =>
             /\ Len(stack') = Len(stack) + 1
             /\ stack'[Len(stack')].phase = "signatures"
             /\ stack # <<>> => stack[Len(stack)].phase = "scan"]_vars

\* the root call, which already holds the node of one counterparty, awaits the
\* call for a second counterparty, and that call awaits an answer of rpcCall
C32_Witness ==
  /\ tracePc = "running"
  /\ Len(stack) = 2
  /\ stack[1].phase = "recursing"
  /\ Len(stack[1].nodes) >= 1
  /\ Outstanding(2)
  /\ stack[2].phase = "transaction"

\* the nodes of the forward tree that stand for address a and own children
ExpandedNodes(a) ==
  {k \in 1..Len(ResultNodes) :
     ResultNodes[k].address = a /\ ResultNodes[k].children # <<>>}

\* C33: a forward trace that meets, as a qualifying recipient, an address it
\* has expanded before (the root included) pushes a node for it with no
\* children and fetches nothing for it. In the tree returned at most one node
\* of an address owns children, only an address in the visited set has such a
\* node, and no node of the root does.
C33_RevisitNotExpanded ==
  /\ [](traceConfig.direction = "forward" /\ tracePc = "done" =>
          /\ ExpandedNodes(traceConfig.root) = {}
          /\ \A a \in Addresses :
               /\ Cardinality(ExpandedNodes(a)) <= 1
               /\ ExpandedNodes(a) # {} => a \in visited)
  /\ [][(/\ traceConfig.direction = "forward"
         /\ tracePc = "running"
         /\ Top.phase = "scan"
         /\ Len(stack') = Len(stack)
         /\ stack'[Len(stack)].phase = "scan"
         /\ stack'[Len(stack)].nodes # Top.nodes) =>
          LET made == stack'[Len(stack)].nodes[Len(stack'[Len(stack)].nodes)] IN
            /\ Len(stack'[Len(stack)].nodes) = Len(Top.nodes) + 1
            /\ made.children = <<>>
            /\ made.address \in visited \/ Top.depth + 1 >= traceConfig.maxDepth
            /\ expanded' = expanded
            /\ visited' = visited]_vars

\* a finished forward trace returned two nodes for B under the root: the one
\* of the first transfer owns the nodes found from B, the one of the second
\* transfer, met when B was in the visited set, owns none
C33_Witness ==
  /\ traceConfig.direction = "forward"
  /\ tracePc = "done"
  /\ Len(result) >= 2
  /\ \E k, l \in 1..Len(result) :
       /\ k < l
       /\ result[k].address = "B" /\ result[k].children # <<>>
       /\ result[l].address = "B" /\ result[l].children = <<>>
       /\ traceConfig.maxDepth > 1

\* the node of the backward result with the given id; parent 0 is null
KnownNode(id) == \E k \in 1..Len(result) : result[k].id = id
NodeOf(id) == result[CHOOSE k \in 1..Len(result) : result[k].id = id]

RECURSIVE ParentChain(_, _)
\* printTransferChain: the nodes met from the node with the given id along
\* parent links until null, at most `fuel` of them
ParentChain(id, fuel) ==
  IF id = 0 \/ fuel = 0 \/ ~KnownNode(id) THEN <<>>
  ELSE <<NodeOf(id)>> \o ParentChain(NodeOf(id).parent, fuel - 1)

\* C34: in the chains a backward trace returns, the walk along parent links
\* from any node ends at null after exactly depth + 1 nodes, all different;
\* every step leads to a returned node whose depth is one less, and a node has
\* parent null exactly when its depth is 0.
C34_ParentChainsEnd ==
  (traceConfig.direction = "backward" /\ tracePc = "done") =>
    \A k \in 1..Len(result) :
      LET chain == ParentChain(result[k].id, Len(result) + 1) IN
        /\ Cardinality({l \in 1..Len(result) : result[l].id = result[k].id}) = 1
        /\ result[k].parent = 0 <=> result[k].depth = 0
        /\ result[k].parent # 0 => KnownNode(result[k].parent)
        /\ Len(chain) = result[k].depth + 1
        /\ chain[Len(chain)].parent = 0
        /\ \A m \in 1..(Len(chain) - 1) :
             /\ chain[m].parent = chain[m + 1].id
             /\ chain[m + 1].depth = chain[m].depth - 1
        /\ \A m, n \in 1..Len(chain) : m # n => chain[m].id # chain[n].id

\* a finished backward trace returned a node of depth 2 for the root itself,
\* met again as a sender: its chain leads over two other nodes to null
C34_Witness ==
  /\ traceConfig.direction = "backward"
  /\ tracePc = "done"
  /\ \E k \in 1..Len(result) :
       /\ result[k].depth = 2
       /\ result[k].address = traceConfig.root
       /\ Len(ParentChain(result[k].id, Len(result) + 1)) = 3

\* the sockets that are connecting or open
LiveSockets == {s \in SocketIds : sockets[s].state \in {"CONNECTING", "OPEN"}}

\* C35: whatever the order of connect() calls and socket events, at most one
\* socket of the manager is connecting or open, at most one reconnect timer is
\* pending, and a reconnect timer is pending only while no socket is
\* connecting or open (the close of a replaced socket schedules none).
C35_OneConnectionOneTimer ==
  /\ Cardinality(LiveSockets) <= 1
  /\ Cardinality(timers) <= 1
  /\ timers # {} => LiveSockets = {}

\* the ways a dispatch ends after its mint passed the duplicate test without a
\* trade: a rejection by a check, a trade that failed, a trade that threw
FailedAttempts == Rejections \cup {"failure", "exception"}

\* C36: processTransaction sets currentMint to a newly extracted mint in the
\* step that starts its security checks, and neither a rejection nor a failed
\* trade changes currentMint. A dispatch that extracts the mint currentMint
\* holds ends as a duplicate: no check, no execution call.
C36_FailedMintStaysDuplicate ==
  [][\A e \in EventIds :
       LET mintAddress == extractMintAddress(events[e].signature) IN
         /\ (~events[e].checked /\ events'[e].checked) =>
              /\ currentMint' = mintAddress
              /\ events'[e].status = "checking"
              /\ executions' = executions
         /\ (events[e].status \in {"checking", "trading"} /\ events'[e].status = "done") =>
              currentMint' = currentMint
         /\ (/\ events[e].status = "extracting"
             /\ events'[e].status # "extracting"
             /\ events'[e].why # "exception"
             /\ mintAddress = currentMint) =>
              /\ events'[e].status = "done"
              /\ events'[e].why = "duplicate"
              /\ ~events'[e].checked
              /\ executions' = executions
              /\ currentMint' = currentMint]_vars

\* a mint was rejected by a check or its trade failed, and the next detection
\* of the same mint ended as a duplicate
C36_Witness ==
  \E e, f \in EventIds :
    /\ f = e + 1
    /\ events[e].status = "done"
    /\ events[e].checked
    /\ events[e].why \in Rejections \cup {"failure"}
    /\ events[f].signature = events[e].signature
    /\ events[f].status = "done"
    /\ events[f].why = "duplicate"
    /\ currentMint = extractMintAddress(events[e].signature)

\* C37: the authority check fails closed. A lookup that fails yields the
\* status of a token with both authorities, and while every lookup fails the
\* app in snipe mode calls executeTrade for no mint unless allowMintAuthority
\* and allowFreezeAuthority are both set: every checked dispatch ends rejected,
\* for the mint authority when that is not allowed and for the freeze
\* authority otherwise. With both set the checks pass and the trade is made.
C37_LookupFailsClosed ==
  LET failed == getTokenAuthorities("lookupFailed")
      bothAllowed == appConfig.allowMintAuthority /\ appConfig.allowFreezeAuthority
  IN /\ ~failed.isSecure /\ failed.hasMintAuthority /\ failed.hasFreezeAuthority
     /\ ~bothAllowed =>
          /\ \A m \in Mints : executions[m] = 0
          /\ \A e \in EventIds :
               /\ events[e].status # "trading"
               /\ (events[e].checked /\ events[e].status = "done") =>
                    events[e].why = (IF ~appConfig.allowMintAuthority
                                       THEN "mintAuthority" ELSE "freezeAuthority")
     /\ bothAllowed =>
          \A e \in EventIds :
            (events[e].checked /\ events[e].status = "done") =>
              events[e].why \in {"success", "failure", "exception"}

\* with the mint authority allowed and the freeze authority not, a mint whose
\* lookup failed was rejected for its freeze authority
C37_Witness ==
  /\ appConfig.checkMode = "snipe"
  /\ appConfig.allowMintAuthority
  /\ ~appConfig.allowFreezeAuthority
  /\ \E e \in EventIds :
       /\ events[e].checked
       /\ events[e].status = "done"
       /\ events[e].why = "freezeAuthority"
  /\ \A m \in Mints : executions[m] = 0

\* C38: in simulation mode the app never calls tradingService.buyToken,
\* whatever the messages of the feed, the check mode and the outcome of the
\* checks: no dispatch is ever in the call, none ends with the call's result,
\* and a dispatch whose mint passed the duplicate test ends rejected by a
\* check or simulated.
C38_SimulationNeverBuys ==
  appConfig.simulationMode =>
    \A e \in EventIds :
      /\ events[e].status # "trading"
      /\ events[e].why \notin {"success", "failure"}
      /\ (events[e].checked /\ events[e].status = "done") =>
           events[e].why \in Rejections \cup {"simulated"}

\* in simulation mode with the snipe check, one mint passed the check and its
\* trade was simulated, another was rejected by the check
C38_Witness ==
  /\ appConfig.simulationMode
  /\ appConfig.checkMode = "snipe"
  /\ \E e, f \in EventIds :
       /\ events[e].status = "done" /\ events[e].why = "simulated"
       /\ events[f].status = "done" /\ events[f].why \in Rejections
  /\ \E m \in Mints : executions[m] >= 1

\* the number of buyToken calls made for a signature
BuyAttempts(sig) == Cardinality({i \in 1..Len(watch.buys) : watch.buys[i] = sig})

\* C39: over any sequence of polls of watchForTokenCreation, trims of the
\* seen set included, no signature leads to more than one buy attempt.
C39_OneBuyPerSignature ==
  \A sig \in 1..watch.ledger : BuyAttempts(sig) <= 1

\* what the seen set does guarantee, trims included: getTransaction is
\* answered with a transaction or null at most once per signature, and a
\* signature leads to no more buy attempts than its transaction has
\* initializeMint instructions
C39_FetchedOnce ==
  /\ \A sig \in 1..watch.ledger :
       Cardinality({i \in 1..Len(watch.fetched) : watch.fetched[i] = sig}) <= 1
  /\ \A sig \in 1..watch.ledger : BuyAttempts(sig) <= InitializeMints(sig)

\* C40: in every export of a backward trace, empty chains included,
\* stats.oldestTransaction <= stats.newestTransaction.
C40_OldestNotAfterNewest ==
  exportRun.pc = "exported" =>
    ~StringLess(exportRun.stats.newestTx, exportRun.stats.oldestTx)

\* what calculateStats does guarantee: with at least one node in the chains
\* the oldest timestamp is not after the newest
C40_OrderedWhenNotEmpty ==
  (exportRun.pc = "exported" /\ exportRun.chains # <<>>) =>
    ~StringLess(exportRun.stats.newestTx, exportRun.stats.oldestTx)

====
